---- MODULE Spec2Model ----
(***************************************************************************)
(* Echoes of Xylos (src/EchoesOfXylos.py): the level generator, the        *)
(* entity / item / skill model, the combat engine and the exploration      *)
(* loop, as state machines.                                                *)
(*                                                                         *)
(* The program is single threaded.  An action is a step of its control    *)
(* thread: the handling of one player input up to the next loop head, one  *)
(* combatant's step of an encounter, the end of an encounter, the end of a *)
(* turn (win test and enemy phase), one iteration of a generator loop.     *)
(* pc tells where the thread is.  Random draws are inputs (\E).            *)
(***************************************************************************)
EXTENDS Integers, Sequences, FiniteSets, TLC

VARIABLES
    player,            \* Game.player: the Player object (a record of its fields)
    game_over,         \* Game.game_over
    current_level_num, \* Game.current_level_num
    width,             \* GameMap.width
    height,            \* GameMap.height
    tiles,             \* GameMap.tiles, as a function <<x, y>> -> "#", ".", "P", "E", "S"
    rooms,             \* GameMap.rooms: sequence of [x1, y1, x2, y2]
    player_start,      \* GameMap.player_start
    exit_location,     \* GameMap.exit_location
    shop_location,     \* GameMap.shop_location (NoPos when None)
    entities,          \* GameMap.entities: sequence of Enemy records
    items_on_map,      \* GameMap.items_on_map: function position -> item
    traps_on_map,      \* GameMap.traps_on_map: function position -> Trap record
    pc,                \* where the single control thread waits
    gen,               \* locals of generate_map (attempt counter, empty_tiles, ...)
    combat,            \* locals of combat_round
    shop_items,        \* local of handle_shop: the stock of the open shop
    save_file,         \* the save file: NoFile, CorruptFile, or JsonFile(object)
    sprung_traps,      \* history: the traps triggered so far, by the tile they were on
    turns,             \* exploration turns taken so far (the model stops at MaxTurns)
    next_id,           \* identity of the next object (item, enemy, trap) allocated
    last               \* history: the operation performed by the last step

vars == <<player, game_over, current_level_num, width, height, tiles, rooms,
          player_start, exit_location, shop_location, entities, items_on_map,
          traps_on_map, pc, gen, combat, shop_items, save_file, sprung_traps, turns, next_id, last>>

mapVars == <<width, height, tiles, rooms, player_start, exit_location,
             shop_location, entities, items_on_map, traps_on_map>>

-----------------------------------------------------------------------------
(* Game configuration, lines 28-58.                                        *)

INITIAL_PLAYER_HP == 100
INITIAL_PLAYER_ATTACK == 10
INITIAL_PLAYER_DEFENSE == 5
INITIAL_PLAYER_SPEED == 10
INITIAL_PLAYER_ENERGY == 50
XP_TO_LEVEL_UP_BASE == 50
REST_HEAL_AMOUNT == 15
REST_ENERGY_AMOUNT == 10
TRAP_DAMAGE_BASE == 15
CRYSTALS_TO_WIN == 10

-----------------------------------------------------------------------------
(* Small helpers.                                                          *)

Max(a, b) == IF a >= b THEN a ELSE b

Min(a, b) == IF a <= b THEN a ELSE b

Abs(a) == IF a >= 0 THEN a ELSE -a

RECURSIVE Pow(_, _)
Pow(b, e) == IF e = 0 THEN 1 ELSE b * Pow(b, e - 1)

\* seq without its i-th element: list.pop(i-1)
RemoveAt(seq, i) == [j \in 1..(Len(seq) - 1) |-> IF j < i THEN seq[j] ELSE seq[j + 1]]

\* index of the first element equal to e (0 when absent): list.index / list.remove
RECURSIVE FirstIndexFrom(_, _, _)
FirstIndexFrom(seq, e, i) ==
    IF i > Len(seq) THEN 0
    ELSE IF seq[i] = e THEN i
    ELSE FirstIndexFrom(seq, e, i + 1)

FirstIndex(seq, e) == FirstIndexFrom(seq, e, 1)

Range(seq) == {seq[i] : i \in 1..Len(seq)}

\* Python's None for an item reference and for a position
NoItem == [id |-> 0, name |-> "None"]

NoPos == <<-1, -1>>

-----------------------------------------------------------------------------
(* Items, lines 346-446.  An item object is [id, name]: id is the object's *)
(* identity (items compare by identity), name selects its class.           *)

WeaponNames == {"Laser Pistol", "Plasma Rifle"}

ArmorNames == {"Scrap Armor", "Reinforced Vest"}

ConsumableNames == {"Health Potion", "Energy Cell", "Energy Pack"}

\* the seven classes offered as drops, floor items and shop stock, in list order
LootNames ==
    <<"Health Potion", "Energy Cell", "Energy Pack", "Laser Pistol",
      "Plasma Rifle", "Scrap Armor", "Reinforced Vest">>

ALL_ITEM_CLASSES == Range(LootNames) \cup {"Energy Crystal"}

item_type(name) ==
    IF name \in WeaponNames THEN "weapon"
    ELSE IF name \in ArmorNames THEN "armor"
    ELSE IF name \in ConsumableNames THEN "consumable"
    ELSE "collectible"

damage_bonus(name) ==
    IF name = "Laser Pistol" THEN 5 ELSE IF name = "Plasma Rifle" THEN 10 ELSE 0

defense_bonus(name) ==
    IF name = "Scrap Armor" THEN 3 ELSE IF name = "Reinforced Vest" THEN 7 ELSE 0

base_value(name) ==
    CASE name = "Health Potion" -> 20
      [] name = "Energy Cell" -> 15
      [] name = "Energy Pack" -> 25
      [] name = "Energy Crystal" -> 100
      [] name = "Laser Pistol" -> 30
      [] name = "Plasma Rifle" -> 60
      [] name = "Scrap Armor" -> 25
      [] name = "Reinforced Vest" -> 50

NewItem(id, name) == [id |-> id, name |-> name]

-----------------------------------------------------------------------------
(* GameEntity, lines 121-150.                                              *)

\* take_damage without the clamp at 0
take_damage_unclamped(e, damage) == [e EXCEPT !.hp = @ - damage]

take_damage(e, damage) ==
    LET h == e.hp - damage
    IN  [e EXCEPT !.hp = IF h < 0 THEN 0 ELSE h]

is_alive(e) == e.hp > 0

\* the damage without the floor of 0
AttackDamageBelowZero(attacker, target) == attacker.attack - target.defense

AttackDamage(attacker, target) == Max(0, attacker.attack - target.defense)

\* the target after attacker.attack_target(target)
attack_target(attacker, target) == take_damage(target, AttackDamage(attacker, target))

-----------------------------------------------------------------------------
(* Player, lines 152-249.                                                  *)

\* the name typed at the prompt of line 959
PLAYER_NAME == "Prospector"

NewPlayer(hp, atk, defn, spd, class_type) ==
    [name |-> PLAYER_NAME, hp |-> hp, max_hp |-> hp, attack |-> atk, defense |-> defn, speed |-> spd,
     level |-> 1, class_type |-> class_type, inventory |-> <<>>,
     equipped_weapon |-> NoItem, equipped_armor |-> NoItem,
     xp |-> 0, xp_to_next_level |-> XP_TO_LEVEL_UP_BASE,
     learned_skills |-> <<>>,
     max_energy |-> INITIAL_PLAYER_ENERGY, energy |-> INITIAL_PLAYER_ENERGY,
     credits |-> 0, crystals_collected |-> 0, x |-> 0, y |-> 0]

\* int(XP_TO_LEVEL_UP_BASE * (XP_LEVEL_MULTIPLIER ** (level - 1))), with 1.5 = 3/2
\* a threshold that stays at XP_TO_LEVEL_UP_BASE
XpThresholdFlat(level) == XP_TO_LEVEL_UP_BASE

XpThreshold(level) ==
    (XP_TO_LEVEL_UP_BASE * Pow(3, level - 1)) \div Pow(2, level - 1)

\* the skill the (class, level) table unlocks, "" when none
SkillUnlockedAt(class_type, level) ==
    CASE class_type = "soldier" /\ level = 2 -> "Power Shot"
      [] class_type = "soldier" /\ level = 5 -> "Grenade Toss"
      [] class_type = "engineer" /\ level = 2 -> "Repair Drone"
      [] class_type = "engineer" /\ level = 5 -> "Shield Matrix"
      [] class_type = "scout" /\ level = 2 -> "Burst of Speed"
      [] class_type = "scout" /\ level = 5 -> "Stealth Field"
      [] OTHER -> ""

\* unlock_skills that reads the table one level late
unlock_skills_one_level_late(p) ==
    LET s == SkillUnlockedAt(p.class_type, p.level - 1)
    IN  IF s # "" /\ s \notin Range(p.learned_skills)
        THEN [p EXCEPT !.learned_skills = Append(@, s)]
        ELSE p

unlock_skills(p) ==
    LET s == SkillUnlockedAt(p.class_type, p.level)
    IN  IF s # "" /\ s \notin Range(p.learned_skills)
        THEN [p EXCEPT !.learned_skills = Append(@, s)]
        ELSE p

\* level_up that adds the level bonus to the current hp and energy instead of refilling them
level_up_without_refill(p) ==
    LET lvl == p.level + 1
        q == [p EXCEPT !.level = lvl,
                       !.max_hp = @ + 15,
                       !.hp = @ + 15,
                       !.attack = @ + 3,
                       !.defense = @ + 2,
                       !.speed = @ + 1,
                       !.max_energy = @ + 10,
                       !.energy = @ + 10,
                       !.xp = @ - p.xp_to_next_level,
                       !.xp_to_next_level = XpThreshold(lvl)]
    IN  unlock_skills(q)

level_up(p) ==
    LET lvl == p.level + 1
        q == [p EXCEPT !.level = lvl,
                       !.max_hp = @ + 15,
                       !.hp = p.max_hp + 15,
                       !.attack = @ + 3,
                       !.defense = @ + 2,
                       !.speed = @ + 1,
                       !.max_energy = @ + 10,
                       !.energy = p.max_energy + 10,
                       !.xp = @ - p.xp_to_next_level,
                       !.xp_to_next_level = XpThreshold(lvl)]
    IN  unlock_skills(q)

add_xp(p, amount) ==
    LET q == [p EXCEPT !.xp = @ + amount]
    IN  IF q.xp >= q.xp_to_next_level THEN level_up(q) ELSE q

\* equip_item that leaves the previous item's bonus in place
equip_item_keeping_old_bonus(p, item) ==
    IF item_type(item.name) = "weapon" THEN
        LET q == IF p.equipped_weapon # NoItem
                 THEN [p EXCEPT !.inventory = Append(@, p.equipped_weapon)]
                 ELSE p
        IN  [q EXCEPT !.equipped_weapon = item,
                      !.attack = @ + damage_bonus(item.name)]
    ELSE IF item_type(item.name) = "armor" THEN
        LET q == IF p.equipped_armor # NoItem
                 THEN [p EXCEPT !.inventory = Append(@, p.equipped_armor)]
                 ELSE p
        IN  [q EXCEPT !.equipped_armor = item,
                      !.defense = @ + defense_bonus(item.name)]
    ELSE p

equip_item(p, item) ==
    IF item_type(item.name) = "weapon" THEN
        LET q == IF p.equipped_weapon # NoItem
                 THEN [p EXCEPT !.inventory = Append(@, p.equipped_weapon),
                                !.attack = @ - damage_bonus(p.equipped_weapon.name)]
                 ELSE p
        IN  [q EXCEPT !.equipped_weapon = item,
                      !.attack = @ + damage_bonus(item.name)]
    ELSE IF item_type(item.name) = "armor" THEN
        LET q == IF p.equipped_armor # NoItem
                 THEN [p EXCEPT !.inventory = Append(@, p.equipped_armor),
                                !.defense = @ - defense_bonus(p.equipped_armor.name)]
                 ELSE p
        IN  [q EXCEPT !.equipped_armor = item,
                      !.defense = @ + defense_bonus(item.name)]
    ELSE p

\* Consumable.use: the effect functions of lines 388-413
consumable_effect(p, name) ==
    CASE name = "Health Potion" -> [p EXCEPT !.hp = Min(p.max_hp, p.hp + 50)]
      [] name = "Energy Cell" -> [p EXCEPT !.hp = Min(p.max_hp, p.hp + 25)]
      [] name = "Energy Pack" -> [p EXCEPT !.energy = Min(p.max_energy, p.energy + 40)]
      [] OTHER -> p

use_item(p, item) ==
    IF item_type(item.name) = "consumable" THEN
        LET q == consumable_effect(p, item.name)
            i == FirstIndex(q.inventory, item)
        IN  IF i > 0 THEN [q EXCEPT !.inventory = RemoveAt(@, i)] ELSE q
    ELSE p

\* Game.character_creation, lines 968-997; the two starting items are objects 1 and 2
character_creation(class_choice_num) ==
    LET p0 == CASE class_choice_num = 1 ->
                     NewPlayer(INITIAL_PLAYER_HP + 10, INITIAL_PLAYER_ATTACK + 5,
                               INITIAL_PLAYER_DEFENSE, INITIAL_PLAYER_SPEED, "soldier")
                [] class_choice_num = 2 ->
                     NewPlayer(INITIAL_PLAYER_HP + 20, INITIAL_PLAYER_ATTACK,
                               INITIAL_PLAYER_DEFENSE + 5, INITIAL_PLAYER_SPEED, "engineer")
                [] class_choice_num = 3 ->
                     NewPlayer(INITIAL_PLAYER_HP, INITIAL_PLAYER_ATTACK + 2,
                               INITIAL_PLAYER_DEFENSE, INITIAL_PLAYER_SPEED + 5, "scout")
        starting_weapon == NewItem(1, "Laser Pistol")
        starting_armor == NewItem(2, "Scrap Armor")
        p1 == [p0 EXCEPT !.inventory = <<starting_weapon, starting_armor>>]
    IN  equip_item(equip_item(p1, starting_weapon), starting_armor)

-----------------------------------------------------------------------------
(* Enemy, lines 300-344.                                                   *)

\* enemy_types, in list order: name, HP, ATK, DEF, SPD, XP, credits
enemy_types ==
    <<[name |-> "Cyber-Drone", hp |-> 30, atk |-> 8, def |-> 3, spd |-> 7, xp |-> 20, credits |-> 5],
      [name |-> "Mutant Scavenger", hp |-> 40, atk |-> 12, def |-> 5, spd |-> 6, xp |-> 30, credits |-> 8],
      [name |-> "Rogue Android", hp |-> 50, atk |-> 15, def |-> 7, spd |-> 8, xp |-> 40, credits |-> 10],
      [name |-> "Alien Hunter", hp |-> 60, atk |-> 18, def |-> 9, spd |-> 9, xp |-> 50, credits |-> 15]>>

\* a scaling by the level itself: int(base * player_level)
ScaleStatByLevel(base, player_level) == base * player_level

\* int(base * level_multiplier) with level_multiplier = 1 + (player_level - 1) * 0.2
\* in IEEE double arithmetic: the exact value floor(base * (L + 4) / 5), except
\* where the rounded product falls just below an integer (the cases below are
\* the only ones for the bases of enemy_types and L < 60).
ScaleStat(base, player_level) ==
    LET exact == (base * (player_level + 4)) \div 5
    IN  IF \/ player_level = 19 /\ base = 50
           \/ player_level = 37 /\ base \in {15, 30, 50, 60}
        THEN exact - 1
        ELSE exact

\* Enemy.create_random_enemy with its draws made explicit: the archetype index,
\* and the dropped item (NoItem when random.random() >= 0.3)
create_random_enemy(id, player_level, type_index, item_drop) ==
    LET t == enemy_types[type_index]
        hp == ScaleStat(t.hp, player_level)
    IN  [id |-> id, name |-> t.name, hp |-> hp, max_hp |-> hp,
         attack |-> ScaleStat(t.atk, player_level),
         defense |-> ScaleStat(t.def, player_level),
         speed |-> ScaleStat(t.spd, player_level),
         level |-> 1,
         xp_value |-> ScaleStat(t.xp, player_level),
         credit_value |-> ScaleStat(t.credits, player_level),
         item_drop |-> item_drop, x |-> -1, y |-> -1]

-----------------------------------------------------------------------------
(* Trap, lines 529-549.                                                    *)

NewTrap(x, y, damage) == [x |-> x, y |-> y, damage |-> damage, triggered |-> FALSE]

\* Trap.trigger without the test of the triggered flag
trap_trigger_ignoring_flag(trap, p) ==
    LET t == [trap EXCEPT !.triggered = TRUE]
    IN  IF p.class_type = "scout" THEN <<t, p>>
        ELSE <<t, take_damage(p, trap.damage)>>

\* Trap.trigger: the pair <<trap, player>> after trap.trigger(player)
trap_trigger(trap, p) ==
    IF trap.triggered THEN <<trap, p>>
    ELSE LET t == [trap EXCEPT !.triggered = TRUE]
         IN  IF p.class_type = "scout" THEN <<t, p>>
             ELSE <<t, take_damage(p, trap.damage)>>

-----------------------------------------------------------------------------
(* GameMap.generate_map, lines 568-703.  The generator is checked on a     *)
(* scaled-down configuration: the map size, the room sizes, the number of  *)
(* room attempts and the feature counts below are smaller than the game's  *)
(* (40 x 20, rooms of 5..10, 10 attempts, 7 enemies, 5 items, 3.3% traps). *)

MAP_WIDTH == 8

MAP_HEIGHT == 8

MAX_ROOMS == 3

ROOM_MIN_SIZE == 2

ROOM_MAX_SIZE == 3

MAX_ENEMIES_PER_LEVEL == 2

MAX_ITEMS_PER_LEVEL == 1

\* TRAP_SPAWN_CHANCE in thousandths
TRAP_SPAWN_PERMILLE == 150

AllWalls(w, h) == [p \in (0..(w - 1)) \X (0..(h - 1)) |-> "#"]

NewRoom(x, y, w, h) == [x1 |-> x, y1 |-> y, x2 |-> x + w, y2 |-> y + h]

\* an overlap test that compares the carved tiles only, without the margin
overlaps_without_margin(new_room, existing_rooms) ==
    \E i \in 1..Len(existing_rooms) :
        /\ new_room.x1 <= existing_rooms[i].x2 - 1
        /\ new_room.x2 - 1 >= existing_rooms[i].x1
        /\ new_room.y1 <= existing_rooms[i].y2 - 1
        /\ new_room.y2 - 1 >= existing_rooms[i].y1

\* an overlap test that rejects every candidate
overlaps_always(new_room, existing_rooms) == TRUE

\* the overlap test of lines 588-595
overlaps(new_room, existing_rooms) ==
    \E i \in 1..Len(existing_rooms) :
        /\ new_room.x1 <= existing_rooms[i].x2 + 1
        /\ new_room.x2 >= existing_rooms[i].x1 - 1
        /\ new_room.y1 <= existing_rooms[i].y2 + 1
        /\ new_room.y2 >= existing_rooms[i].y1 - 1

\* lines 599-601
carve_room(t, r) ==
    [p \in DOMAIN t |->
        IF r.x1 <= p[1] /\ p[1] < r.x2 /\ r.y1 <= p[2] /\ p[2] < r.y2
        THEN "." ELSE t[p]]

\* rooms.sort(key=lambda r: r['x1']): a stable sort
InsertByX1(sorted, r) ==
    LET k == Cardinality({i \in 1..Len(sorted) : sorted[i].x1 <= r.x1})
    IN  SubSeq(sorted, 1, k) \o <<r>> \o SubSeq(sorted, k + 1, Len(sorted))

RECURSIVE sort_rooms(_)
sort_rooms(rs) ==
    IF rs = <<>> THEN <<>>
    ELSE InsertByX1(sort_rooms(SubSeq(rs, 1, Len(rs) - 1)), rs[Len(rs)])

center_x(r) == (r.x1 + r.x2) \div 2

center_y(r) == (r.y1 + r.y2) \div 2

\* carve_corridor with the vertical run at the first room's centre column
carve_corridor_at_first_column(t, room1, room2) ==
    LET c1x == center_x(room1)
        c1y == center_y(room1)
        c2x == center_x(room2)
        c2y == center_y(room2)
    IN  [p \in DOMAIN t |->
            IF \/ p[2] = c1y /\ Min(c1x, c2x) <= p[1] /\ p[1] <= Max(c1x, c2x)
               \/ p[1] = c1x /\ Min(c1y, c2y) <= p[2] /\ p[2] <= Max(c1y, c2y)
            THEN "." ELSE t[p]]

\* the L-shaped corridor of lines 617-623
carve_corridor(t, room1, room2) ==
    LET c1x == center_x(room1)
        c1y == center_y(room1)
        c2x == center_x(room2)
        c2y == center_y(room2)
    IN  [p \in DOMAIN t |->
            IF \/ p[2] = c1y /\ Min(c1x, c2x) <= p[1] /\ p[1] <= Max(c1x, c2x)
               \/ p[1] = c2x /\ Min(c1y, c2y) <= p[2] /\ p[2] <= Max(c1y, c2y)
            THEN "." ELSE t[p]]

RECURSIVE connect_from(_, _, _)
connect_from(t, rs, i) ==
    IF i >= Len(rs) THEN t
    ELSE connect_from(carve_corridor(t, rs[i], rs[i + 1]), rs, i + 1)

\* lines 604-623: the rooms after the sort, the tiles after the corridors
connected_rooms(rs) == IF Len(rs) > 1 THEN sort_rooms(rs) ELSE rs

connect_rooms(t, rs) == IF Len(rs) > 1 THEN connect_from(t, sort_rooms(rs), 1) ELSE t

\* lines 626-630: the '.' tiles in row-major order
RECURSIVE scan_tiles(_, _, _, _)
scan_tiles(t, w, h, k) ==
    IF k >= w * h THEN <<>>
    ELSE LET p == <<k % w, k \div w>>
         IN  (IF t[p] = "." THEN <<p>> ELSE <<>>) \o scan_tiles(t, w, h, k + 1)

collect_empty_tiles(t, w, h) == scan_tiles(t, w, h, 0)

\* pool_remove that forgets the removal
pool_remove_nothing(pool, pos) == pool

\* list.remove(pos)
pool_remove(pool, pos) == RemoveAt(pool, FirstIndex(pool, pos))

\* a separation test that accepts every tile
exit_anywhere(pos, start, w, h) == TRUE

\* a separation test that accepts a tile exactly a quarter of the map away
exit_quarter_away(pos, start, w, h) ==
    \/ Abs(pos[1] - start[1]) >= w \div 4
    \/ Abs(pos[2] - start[2]) >= h \div 4

\* the separation test of lines 646-647
exit_far_enough(pos, start, w, h) ==
    \/ Abs(pos[1] - start[1]) > w \div 4
    \/ Abs(pos[2] - start[2]) > h \div 4

\* int(len(empty_tiles) * TRAP_SPAWN_CHANCE)
num_traps(pool) == (Len(pool) * TRAP_SPAWN_PERMILLE) \div 1000

\* a random.choice over the pool, explored at the first and the last tile
EndDraws(pool) == IF pool = <<>> THEN {} ELSE {pool[1], pool[Len(pool)]}

AllDraws(pool) == Range(pool)

\* randint ranges of lines 582-583 for a room of w x h
RoomOrigins(w, h) == (1..(width - w - 1)) \X (1..(height - h - 1))

CornerOrigins(w, h) ==
    {o \in RoomOrigins(w, h) :
        o[1] \in {1, width - w - 1} /\ o[2] \in {1, height - h - 1}}

-----------------------------------------------------------------------------
(* Values of the variables a specification does not use.                   *)

NoMap ==
    /\ width = 0
    /\ height = 0
    /\ tiles = <<>>
    /\ rooms = <<>>
    /\ player_start = <<0, 0>>
    /\ exit_location = <<0, 0>>
    /\ shop_location = NoPos
    /\ entities = <<>>
    /\ items_on_map = <<>>
    /\ traps_on_map = <<>>

NoCombat == [enemy |-> 0]

\* os.path.exists(SAVE_FILE_NAME) is False
NoFile == [kind |-> "missing"]

\* a file whose content json.load rejects
CorruptFile == [kind |-> "corrupt"]

NoGen == [attempt |-> 0]

NoOp == [op |-> "init"]

-----------------------------------------------------------------------------
(* The steps of generate_map as functions of the floor under construction. *)
(* A floor f is a record of the GameMap fields, the local empty_tiles      *)
(* (pool) and the allocation counter.                                      *)

\* GameMap.__init__ (lines 556-566) and the reset of lines 571-576
NewFloor(w, h, first_id) ==
    [width |-> w, height |-> h, tiles |-> AllWalls(w, h), rooms |-> <<>>,
     player_start |-> <<0, 0>>, exit_location |-> <<0, 0>>, shop_location |-> NoPos,
     entities |-> <<>>, items_on_map |-> <<>>, traps_on_map |-> <<>>,
     pool |-> <<>>, next_id |-> first_id]

\* one iteration of the room loop, lines 579-601, with its four randint draws
try_room(f, w, h, x, y) ==
    LET new_room == NewRoom(x, y, w, h)
    IN  IF overlaps(new_room, f.rooms) THEN f
        ELSE [f EXCEPT !.rooms = Append(@, new_room),
                       !.tiles = carve_room(@, new_room)]

\* lines 603-630: the corridors and the tile pool
connect_and_collect(f) ==
    LET t == connect_rooms(f.tiles, f.rooms)
    IN  [f EXCEPT !.tiles = t,
                  !.rooms = connected_rooms(@),
                  !.pool = collect_empty_tiles(t, f.width, f.height)]

\* lines 638-641
place_start(f, pos) ==
    [f EXCEPT !.player_start = pos,
              !.tiles = [@ EXCEPT ![pos] = "P"],
              !.pool = pool_remove(@, pos)]

\* one iteration of the exit loop, lines 644-650
draw_exit(f, pos) ==
    IF exit_far_enough(pos, f.player_start, f.width, f.height)
    THEN [f EXCEPT !.exit_location = pos,
                   !.tiles = [@ EXCEPT ![pos] = "E"],
                   !.pool = pool_remove(@, pos)]
    ELSE [f EXCEPT !.exit_location = pos]

\* one iteration of the shop loop, lines 654-661
draw_shop(f, pos) ==
    IF pos # f.player_start /\ pos # f.exit_location
    THEN [f EXCEPT !.shop_location = pos,
                   !.tiles = [@ EXCEPT ![pos] = "S"],
                   !.pool = pool_remove(@, pos)]
    ELSE f

\* one iteration of the trap loop, lines 667-669
place_trap(f, pos) ==
    [f EXCEPT !.traps_on_map = (pos :> NewTrap(pos[1], pos[2], TRAP_DAMAGE_BASE)) @@ @,
              !.pool = pool_remove(@, pos)]

\* one iteration of the enemy loop, lines 676-680; drop_name "None": no drop
place_enemy(f, pos, player_level, type_index, drop_name) ==
    LET drop == IF drop_name = "None" THEN NoItem ELSE NewItem(f.next_id, drop_name)
        enemy == create_random_enemy(f.next_id + 1, player_level, type_index, drop)
    IN  [f EXCEPT !.entities = Append(@, [enemy EXCEPT !.x = pos[1], !.y = pos[2]]),
                  !.pool = pool_remove(@, pos),
                  !.next_id = @ + 2]

\* one iteration of the item loop, lines 687-693
place_item(f, pos, name) ==
    [f EXCEPT !.items_on_map = (pos :> NewItem(f.next_id, name)) @@ @,
              !.pool = pool_remove(@, pos),
              !.next_id = @ + 1]

\* one iteration of the crystal loop, lines 699-703; hit: random.random() < chance
try_crystal(f, pos, hit) == IF hit THEN place_item(f, pos, "Energy Crystal") ELSE f

-----------------------------------------------------------------------------
(* generate_map as a sequence of steps of the control thread.  gen holds   *)
(* its locals: the room attempt counter, empty_tiles, the iterations left  *)
(* of the current placement loop (todo), its arguments, and whether it     *)
(* re-entered itself.                                                      *)

GenLocals(player_level, level_num, is_shop_floor) ==
    [attempt |-> 0, empty_tiles |-> <<>>, todo |-> 0,
     player_level |-> player_level, level_num |-> level_num,
     is_shop_floor |-> is_shop_floor, regenerated |-> FALSE]

\* the floor held by the variables
CurrentFloor ==
    [width |-> width, height |-> height, tiles |-> tiles, rooms |-> rooms,
     player_start |-> player_start, exit_location |-> exit_location,
     shop_location |-> shop_location, entities |-> entities,
     items_on_map |-> items_on_map, traps_on_map |-> traps_on_map,
     pool |-> gen.empty_tiles, next_id |-> next_id]

\* the GameMap fields and the allocation counter become those of f
SetMap(f) ==
    /\ width' = f.width
    /\ height' = f.height
    /\ tiles' = f.tiles
    /\ rooms' = f.rooms
    /\ player_start' = f.player_start
    /\ exit_location' = f.exit_location
    /\ shop_location' = f.shop_location
    /\ entities' = f.entities
    /\ items_on_map' = f.items_on_map
    /\ traps_on_map' = f.traps_on_map
    /\ next_id' = f.next_id

nonMapVars == <<player, game_over, current_level_num, combat, shop_items, save_file, sprung_traps,
                turns, last>>

GenInitWith(levels) ==
    /\ player = NewPlayer(0, 0, 0, 0, "none")
    /\ game_over = FALSE
    /\ current_level_num = 0
    /\ width = MAP_WIDTH
    /\ height = MAP_HEIGHT
    /\ tiles = AllWalls(MAP_WIDTH, MAP_HEIGHT)
    /\ rooms = <<>>
    /\ player_start = <<0, 0>>
    /\ exit_location = <<0, 0>>
    /\ shop_location = NoPos
    /\ entities = <<>>
    /\ items_on_map = <<>>
    /\ traps_on_map = <<>>
    /\ pc = "gen_rooms"
    /\ \E n \in levels : gen = GenLocals(1, n, (n % 5 = 0) /\ (n > 0))
    /\ combat = NoCombat
    /\ shop_items = <<>>
    /\ save_file = NoFile
    /\ turns = 0
    /\ sprung_traps = <<>>
    /\ next_id = 3
    /\ last = NoOp

GenRoom(w, h, x, y) ==
    /\ SetMap(try_room(CurrentFloor, w, h, x, y))
    /\ gen' = [gen EXCEPT !.attempt = @ + 1]
    /\ UNCHANGED <<pc, nonMapVars>>

GenRoomAny ==
    /\ pc = "gen_rooms"
    /\ gen.attempt < MAX_ROOMS
    /\ \E w \in ROOM_MIN_SIZE..ROOM_MAX_SIZE, h \in ROOM_MIN_SIZE..ROOM_MAX_SIZE :
         \E o \in RoomOrigins(w, h) : GenRoom(w, h, o[1], o[2])

GenRoomCorner ==
    /\ pc = "gen_rooms"
    /\ gen.attempt < MAX_ROOMS
    /\ \E w \in ROOM_MIN_SIZE..ROOM_MAX_SIZE, h \in ROOM_MIN_SIZE..ROOM_MAX_SIZE :
         \E o \in CornerOrigins(w, h) : GenRoom(w, h, o[1], o[2])

\* lines 603-636: corridors, the tile pool, and the retry when the pool is empty
GenConnect ==
    /\ pc = "gen_rooms"
    /\ gen.attempt = MAX_ROOMS
    /\ LET f == connect_and_collect(CurrentFloor)
       IN  IF f.pool = <<>>
           THEN /\ SetMap(NewFloor(width, height, next_id))
                /\ gen' = [gen EXCEPT !.attempt = 0, !.regenerated = TRUE]
                /\ pc' = "gen_rooms"
           ELSE /\ SetMap(f)
                /\ gen' = [gen EXCEPT !.empty_tiles = f.pool]
                /\ pc' = "gen_start"
    /\ UNCHANGED nonMapVars

GenStart(pos) ==
    LET f == place_start(CurrentFloor, pos)
    IN  /\ SetMap(f)
        /\ gen' = [gen EXCEPT !.empty_tiles = f.pool]
        /\ pc' = "gen_exit"
        /\ UNCHANGED nonMapVars

GenStartAny == pc = "gen_start" /\ \E pos \in AllDraws(gen.empty_tiles) : GenStart(pos)

GenStartEnds == pc = "gen_start" /\ \E pos \in EndDraws(gen.empty_tiles) : GenStart(pos)

GenExit ==
    /\ pc = "gen_exit"
    /\ \E pos \in EndDraws(gen.empty_tiles) :
         LET f == draw_exit(CurrentFloor, pos)
             placed == f.tiles[pos] = "E"
         IN  /\ SetMap(f)
             /\ gen' = [gen EXCEPT !.empty_tiles = f.pool, !.todo = num_traps(f.pool)]
             /\ pc' = IF ~placed THEN "gen_exit"
                      ELSE IF gen.is_shop_floor THEN "gen_shop" ELSE "gen_traps"
    /\ UNCHANGED nonMapVars

GenShop ==
    /\ pc = "gen_shop"
    /\ \E pos \in EndDraws(gen.empty_tiles) :
         LET f == draw_shop(CurrentFloor, pos)
             placed == f.shop_location # NoPos
         IN  /\ SetMap(f)
             /\ gen' = [gen EXCEPT !.empty_tiles = f.pool, !.todo = num_traps(f.pool)]
             /\ pc' = IF placed THEN "gen_traps" ELSE "gen_shop"
    /\ UNCHANGED nonMapVars

GenTrap ==
    /\ pc = "gen_traps"
    /\ gen.todo > 0
    /\ \E pos \in EndDraws(gen.empty_tiles) :
         LET f == place_trap(CurrentFloor, pos)
         IN  /\ SetMap(f)
             /\ gen' = [gen EXCEPT !.empty_tiles = f.pool, !.todo = @ - 1]
    /\ UNCHANGED <<pc, nonMapVars>>

\* end of the trap loop and num_enemies = random.randint(1, MAX_ENEMIES_PER_LEVEL)
GenTrapsDone ==
    /\ pc = "gen_traps"
    /\ gen.todo = 0 \/ gen.empty_tiles = <<>>
    /\ \E n \in 1..MAX_ENEMIES_PER_LEVEL : gen' = [gen EXCEPT !.todo = n]
    /\ pc' = "gen_enemies"
    /\ UNCHANGED <<mapVars, next_id, nonMapVars>>

\* the archetypes, drops and floor items the generator run explores: the kinds
\* do not bear on where a feature is placed
EnemyTypeDraws == {1}

DropDraws == {"None"}

LootDraws == {"Plasma Rifle"}

GenEnemy ==
    /\ pc = "gen_enemies"
    /\ gen.todo > 0
    /\ \E pos \in EndDraws(gen.empty_tiles), ty \in EnemyTypeDraws, d \in DropDraws :
         LET f == place_enemy(CurrentFloor, pos, gen.player_level, ty, d)
         IN  /\ SetMap(f)
             /\ gen' = [gen EXCEPT !.empty_tiles = f.pool, !.todo = @ - 1]
    /\ UNCHANGED <<pc, nonMapVars>>

\* end of the enemy loop and num_items = random.randint(0, MAX_ITEMS_PER_LEVEL)
GenEnemiesDone ==
    /\ pc = "gen_enemies"
    /\ gen.todo = 0 \/ gen.empty_tiles = <<>>
    /\ \E n \in 0..MAX_ITEMS_PER_LEVEL : gen' = [gen EXCEPT !.todo = n]
    /\ pc' = "gen_items"
    /\ UNCHANGED <<mapVars, next_id, nonMapVars>>

GenItem ==
    /\ pc = "gen_items"
    /\ gen.todo > 0
    /\ \E pos \in EndDraws(gen.empty_tiles), name \in LootDraws :
         LET f == place_item(CurrentFloor, pos, name)
         IN  /\ SetMap(f)
             /\ gen' = [gen EXCEPT !.empty_tiles = f.pool, !.todo = @ - 1]
    /\ UNCHANGED <<pc, nonMapVars>>

\* end of the item loop and the range(random.randint(0, 2)) of line 698
GenItemsDone ==
    /\ pc = "gen_items"
    /\ gen.todo = 0 \/ gen.empty_tiles = <<>>
    /\ \E n \in 0..2 : gen' = [gen EXCEPT !.todo = n]
    /\ pc' = "gen_crystals"
    /\ UNCHANGED <<mapVars, next_id, nonMapVars>>

GenCrystal ==
    /\ pc = "gen_crystals"
    /\ gen.todo > 0
    /\ \E pos \in EndDraws(gen.empty_tiles), hit \in BOOLEAN :
         LET f == try_crystal(CurrentFloor, pos, hit)
         IN  /\ SetMap(f)
             /\ gen' = [gen EXCEPT !.empty_tiles = f.pool, !.todo = @ - 1]
    /\ UNCHANGED <<pc, nonMapVars>>

\* generate_map returns
GenDone ==
    /\ pc = "gen_crystals"
    /\ gen.todo = 0 \/ gen.empty_tiles = <<>>
    /\ pc' = "gen_done"
    /\ UNCHANGED <<mapVars, gen, next_id, nonMapVars>>

\* Room placement and corridors for every room draw, then every player start.
RoomsInit == GenInitWith({1})

RoomsNext == GenRoomAny \/ GenConnect \/ GenStartAny

SpecRooms == RoomsInit /\ [][RoomsNext]_vars

\* Room placement, corridors and player start as in SpecRooms, followed by
\* the exit loop with every tile of the pool as a possible draw.
GenExitAny ==
    /\ pc = "gen_exit"
    /\ \E pos \in AllDraws(gen.empty_tiles) :
         LET f == draw_exit(CurrentFloor, pos)
             placed == f.tiles[pos] = "E"
         IN  /\ SetMap(f)
             /\ gen' = [gen EXCEPT !.empty_tiles = f.pool, !.todo = num_traps(f.pool)]
             /\ pc' = IF ~placed THEN "gen_exit"
                      ELSE IF gen.is_shop_floor THEN "gen_shop" ELSE "gen_traps"
    /\ UNCHANGED nonMapVars

ExitNext == GenRoomAny \/ GenConnect \/ GenStartAny \/ GenExitAny

SpecExit == RoomsInit /\ [][ExitNext]_vars

\* The whole generator, rooms drawn at the corners of their randint ranges.
GenInit == GenInitWith({1, 5})

GenNext ==
    \/ GenRoomCorner
    \/ GenConnect
    \/ GenStartEnds
    \/ GenExit
    \/ GenShop
    \/ GenTrap
    \/ GenTrapsDone
    \/ GenEnemy
    \/ GenEnemiesDone
    \/ GenItem
    \/ GenItemsDone
    \/ GenCrystal
    \/ GenDone

SpecGen == GenInit /\ [][GenNext]_vars

-----------------------------------------------------------------------------
(* Properties of the generated floor.                                      *)

EnemyPositions == {<<entities[i].x, entities[i].y>> : i \in 1..Len(entities)}

ShopPositions == IF shop_location = NoPos THEN {} ELSE {shop_location}

FeaturePositions ==
    {player_start, exit_location} \cup ShopPositions \cup DOMAIN traps_on_map
        \cup EnemyPositions \cup DOMAIN items_on_map

\* C9: in every floor returned by generate_map, player_start, exit_location,
\* shop_location (when present), every trap, every enemy and every item or
\* crystal are on pairwise distinct tiles, each a non-wall tile.
C9_FeaturesOnDistinctFloorTiles ==
    pc = "gen_done" =>
        /\ Cardinality(FeaturePositions) =
               2 + Cardinality(ShopPositions) + Cardinality(DOMAIN traps_on_map)
                 + Len(entities) + Cardinality(DOMAIN items_on_map)
        /\ \A q \in FeaturePositions : q \in DOMAIN tiles /\ tiles[q] # "#"

C9_Witness ==
    /\ pc = "gen_done"
    /\ shop_location # NoPos
    /\ Cardinality(DOMAIN traps_on_map) >= 1
    /\ Len(entities) >= 2
    /\ \E q \in DOMAIN items_on_map : items_on_map[q].name = "Energy Crystal"
    /\ \E q \in DOMAIN items_on_map : items_on_map[q].name # "Energy Crystal"

NonWall(t) == {p \in DOMAIN t : t[p] # "#"}

Adjacent4(p, q) == Abs(p[1] - q[1]) + Abs(p[2] - q[2]) = 1

\* the tiles reached from S by 4-directional moves over non-wall tiles
RECURSIVE Reach(_, _)
Reach(t, S) ==
    LET N == S \cup {q \in NonWall(t) : \E p \in S : Adjacent4(p, q)}
    IN  IF N = S THEN S ELSE Reach(t, N)

\* C10: once the rooms are connected and the player start is placed, every
\* non-wall tile is reachable from player_start by 4-directional moves over
\* non-wall tiles, for any number and position of accepted rooms.
C10_FloorConnected ==
    pc \notin {"gen_rooms", "gen_start"} =>
        Reach(tiles, {player_start}) = NonWall(tiles)

C10_Witness ==
    /\ pc = "gen_exit"
    /\ Len(rooms) = 3
    /\ \E i \in 1..2 :
         /\ center_x(rooms[i]) # center_x(rooms[i + 1])
         /\ center_y(rooms[i]) # center_y(rooms[i + 1])
    /\ Reach(tiles, {player_start}) = NonWall(tiles)

\* the tiles a room carves (range(x1, x2) x range(y1, y2)), and the same
\* rectangle grown by one tile on every side
RoomTiles(r) == (r.x1..(r.x2 - 1)) \X (r.y1..(r.y2 - 1))

WithMargin(r) == ((r.x1 - 1)..r.x2) \X ((r.y1 - 1)..r.y2)

InsideBorder(r) == RoomTiles(r) \subseteq (1..(width - 2)) \X (1..(height - 2))

\* C11: in every generated floor no two accepted rooms overlap, even after
\* each is expanded by a 1-tile margin on all sides, and every room lies
\* inside the grid with at least a 1-tile wall border; a room attempt either
\* appends one room that keeps this, or is dropped (rooms and tiles unchanged),
\* and in both cases uses up one of the MAX_ROOMS attempts.
C11_RoomsApartInsideBorder ==
    /\ [](/\ \A i \in 1..Len(rooms) : InsideBorder(rooms[i])
          /\ \A i, j \in 1..Len(rooms) :
                i # j => WithMargin(rooms[i]) \cap WithMargin(rooms[j]) = {}
          /\ pc = "gen_rooms" => Len(rooms) <= gen.attempt /\ gen.attempt <= MAX_ROOMS)
    /\ [][(pc = "gen_rooms" /\ pc' = "gen_rooms") =>
            /\ gen'.attempt = gen.attempt + 1
            /\ \/ rooms' = rooms /\ tiles' = tiles
               \/ /\ Len(rooms') = Len(rooms) + 1
                  /\ rooms' = Append(rooms, rooms'[Len(rooms')])
                  /\ ~overlaps(rooms'[Len(rooms')], rooms)]_vars

\* two accepted rooms exactly two columns apart, and one dropped candidate
C11_Witness ==
    /\ pc = "gen_start"
    /\ gen.attempt = MAX_ROOMS
    /\ Len(rooms) = 2
    /\ rooms[2].x1 = rooms[1].x2 + 1 + 1
    /\ \E p \in RoomTiles(rooms[2]) : p[1] = width - 2

\* C12: in every floor returned by generate_map the exit is an 'E' tile with
\* |exit.x - start.x| > width // 4 or |exit.y - start.y| > height // 4.
C12_ExitSeparated ==
    pc \in {"gen_shop", "gen_traps", "gen_enemies", "gen_items", "gen_crystals", "gen_done"} =>
        /\ tiles[exit_location] = "E"
        /\ \/ Abs(exit_location[1] - player_start[1]) > width \div 4
           \/ Abs(exit_location[2] - player_start[2]) > height \div 4

\* a returned floor whose exit is far from the start in y only
C12_Witness ==
    /\ pc = "gen_done"
    /\ Abs(exit_location[1] - player_start[1]) <= width \div 4
    /\ Abs(exit_location[2] - player_start[2]) > height \div 4

\* the exit loop is running and no tile left in the pool passes the test of
\* lines 646-647
ExitStuck ==
    /\ pc = "gen_exit"
    /\ \A pos \in Range(gen.empty_tiles) :
         /\ Abs(pos[1] - player_start[1]) <= width \div 4
         /\ Abs(pos[2] - player_start[2]) <= height \div 4

\* C13: exit placement is not guaranteed to terminate: when the layout and
\* the player start leave no pool tile that satisfies the separation test,
\* every draw of the exit loop leaves the generator in the loop with the same
\* pool, whatever tile is drawn, so generate_map never returns.
C13_StuckExitLoopStaysStuck ==
    [][ExitStuck =>
          /\ ExitStuck'
          /\ gen'.empty_tiles = gen.empty_tiles
          /\ tiles' = tiles /\ player_start' = player_start]_vars

\* a single accepted room, a rejected exit draw, and no acceptable tile
C13_Witness ==
    /\ ExitStuck
    /\ Len(rooms) = 1
    /\ gen.empty_tiles # <<>>
    /\ exit_location \in Range(gen.empty_tiles)

-----------------------------------------------------------------------------
(* Progression alone: Player.add_xp called with any award.                 *)

MaxXpAward == 130

MaxLevel == 6

\* a new character, unhurt or after one sprung trap
XpInit ==
    /\ \E c \in 1..3, damage \in {0, TRAP_DAMAGE_BASE} :
         player = take_damage(character_creation(c), damage)
    /\ game_over = FALSE
    /\ current_level_num = 0
    /\ NoMap
    /\ pc = "add_xp"
    /\ gen = NoGen
    /\ combat = NoCombat
    /\ shop_items = <<>>
    /\ save_file = NoFile
    /\ turns = 0
    /\ sprung_traps = <<>>
    /\ next_id = 3
    /\ last = NoOp

XpAward ==
    /\ pc = "add_xp"
    /\ player.level < MaxLevel
    /\ \E amount \in 0..MaxXpAward :
         /\ player' = add_xp(player, amount)
         /\ last' = [op |-> "add_xp"]
    /\ UNCHANGED <<game_over, current_level_num, mapVars, pc, gen, combat,
                   shop_items, save_file, sprung_traps, turns, next_id>>

XpNext == XpAward

SpecXp == XpInit /\ [][XpNext]_vars

\* C5: add_xp returns with xp < xp_to_next_level for every non-negative amount
\* (it levels up repeatedly while xp >= xp_to_next_level).
C5_AddXpEndsBelowThreshold ==
    last.op = "add_xp" => player.xp < player.xp_to_next_level

-----------------------------------------------------------------------------
(* Skills, lines 449-526.                                                  *)

\* the energy costs of ALL_SKILL_DATA
skill_cost(name) ==
    CASE name = "Power Shot" -> 15
      [] name = "Repair Drone" -> 20
      [] name = "Burst of Speed" -> 10
      [] name = "Grenade Toss" -> 30
      [] name = "Shield Matrix" -> 25
      [] name = "Stealth Field" -> 35

\* the effect functions with one target: <<player, enemy>> after the effect
skill_effect(name, p, e) ==
    CASE name = "Repair Drone" ->
             <<[p EXCEPT !.hp = Min(p.max_hp, p.hp + 30 + p.level * 2)], e>>
      [] name = "Power Shot" ->
             IF is_alive(e)
             THEN <<p, take_damage(e, Max(0, p.attack + p.attack \div 2 - e.defense))>>
             ELSE <<p, e>>
      [] name = "Burst of Speed" -> <<[p EXCEPT !.speed = @ + 5], e>>
      [] name = "Shield Matrix" -> <<[p EXCEPT !.defense = @ + 10], e>>
      [] name = "Stealth Field" -> <<[p EXCEPT !.defense = @ + 5, !.speed = @ + 3], e>>
      [] OTHER -> <<p, e>>

\* an explosion that no defense reduces
grenade_toss_ignoring_defense(p, enemies_on_map) ==
    [i \in DOMAIN enemies_on_map |->
        IF is_alive(enemies_on_map[i])
        THEN take_damage(enemies_on_map[i], p.attack \div 3 + 10)
        ELSE enemies_on_map[i]]

\* _soldier_grenade_toss_effect: the enemies of the map after the explosion
grenade_toss_effect(p, enemies_on_map) ==
    [i \in DOMAIN enemies_on_map |->
        IF is_alive(enemies_on_map[i])
        THEN take_damage(enemies_on_map[i],
                         Max(0, p.attack \div 3 + 10 - enemies_on_map[i].defense))
        ELSE enemies_on_map[i]]

\* [e for e in entities if e.is_alive()]
\* alive_only that leaves the dead in the list
alive_only_keeping_the_dead(ents) == ents

alive_only(ents) == SelectSeq(ents, is_alive)

\* The engaged enemy is one object, referenced by the combat and, when it is on
\* the map, by the entities list: a change of it shows in both.
sync_entities(ents, e) ==
    [i \in DOMAIN ents |-> IF ents[i].id = e.id THEN e ELSE ents[i]]

engaged_after(ents, e) ==
    IF \E i \in DOMAIN ents : ents[i].id = e.id
    THEN ents[CHOOSE i \in DOMAIN ents : ents[i].id = e.id]
    ELSE e

-----------------------------------------------------------------------------
(* Inventory menu, handle_inventory lines 1370-1417.                       *)

\* the choices of the menu that end it with True: a consumable, or a weapon or
\* armor that is not the equipped object
inventory_choice_accepted(p, item_index) ==
    LET item == p.inventory[item_index]
    IN  \/ item_type(item.name) = "consumable"
        \/ item_type(item.name) = "weapon" /\ item # p.equipped_weapon
        \/ item_type(item.name) = "armor" /\ item # p.equipped_armor

\* the player after an accepted choice (lines 1390-1408)
inventory_choice(p, item_index) ==
    LET item == p.inventory[item_index]
    IN  IF item_type(item.name) = "consumable" THEN use_item(p, item)
        ELSE LET q == equip_item(p, item)
             IN  IF item \in Range(q.inventory)
                 THEN [q EXCEPT !.inventory = RemoveAt(@, item_index)]
                 ELSE q

-----------------------------------------------------------------------------
(* Combat, combat_round lines 1262-1332 and attempt_flee lines 1335-1368.  *)
(* combat holds the locals of combat_round: the engaged enemy,             *)
(* combat_active, the combatants list of the current round (order) and the *)
(* position of the for loop in it (idx), the two saved stats; prev_first   *)
(* records who was first in the previous round ("none" in the first).      *)

\* turn_order with the enemy first on equal speeds
turn_order_enemy_first_on_ties(p, e) ==
    IF p.speed > e.speed THEN <<"player", "enemy">> ELSE <<"enemy", "player">>

\* sorted([player, enemy], key=speed, reverse=True): stable, the player stays
\* first on equal speeds
turn_order(p, e) ==
    IF p.speed >= e.speed THEN <<"player", "enemy">> ELSE <<"enemy", "player">>

StepPc(who) == IF who = "player" THEN "combat_player" ELSE "combat_enemy"

\* next_step without the liveness test at the head of the for loop
next_step_ignoring_deaths(p, e, active, order, idx) ==
    IF active /\ idx < Len(order)
    THEN <<StepPc(order[idx + 1]), order, idx + 1>>
    ELSE IF is_alive(p) /\ is_alive(e) /\ active
    THEN <<StepPc(turn_order(p, e)[1]), turn_order(p, e), 1>>
    ELSE <<"combat_end", order, idx>>

\* next_step whose for loop tests the player's life only
next_step_ignoring_enemy_death(p, e, active, order, idx) ==
    IF active /\ idx < Len(order) /\ is_alive(p)
    THEN <<StepPc(order[idx + 1]), order, idx + 1>>
    ELSE IF is_alive(p) /\ is_alive(e) /\ active
    THEN <<StepPc(turn_order(p, e)[1]), turn_order(p, e), 1>>
    ELSE <<"combat_end", order, idx>>

\* Control after a combatant's step (lines 1269-1281): the next combatant of
\* the round while both live and no break was taken, else a new round with a
\* new order while the loop condition holds, else the end of the encounter.
\* The result is <<pc, order, idx>>.
next_step(p, e, active, order, idx) ==
    IF active /\ idx < Len(order) /\ is_alive(p) /\ is_alive(e)
    THEN <<StepPc(order[idx + 1]), order, idx + 1>>
    ELSE IF is_alive(p) /\ is_alive(e) /\ active
    THEN <<StepPc(turn_order(p, e)[1]), turn_order(p, e), 1>>
    ELSE <<"combat_end", order, idx>>

\* entry of combat_round(enemy), lines 1264-1277
enter_combat(p, e) ==
    [enemy |-> e, active |-> TRUE,
     initial_speed |-> p.speed, initial_defense |-> p.defense,
     order |-> turn_order(p, e), idx |-> 1, prev_first |-> "none"]

\* pc on entry: the loop condition of line 1269, then the first combatant
enter_pc(p, e) ==
    IF is_alive(p) /\ is_alive(e) THEN StepPc(turn_order(p, e)[1]) ELSE "combat_end"

\* the four neighbours of (x, y) that are '.' tiles, occupied or not
free_adjacent_tiles_ignoring_enemies(x, y, t, ents) ==
    {pos \in {<<x, y + 1>>, <<x, y - 1>>, <<x + 1, y>>, <<x - 1, y>>} :
        pos \in DOMAIN t /\ t[pos] = "."}

\* the four neighbours of (x, y) that are '.' tiles without a living enemy:
\* possible_moves of attempt_flee and possible_spawn_locs of rest_player
free_adjacent_tiles(x, y, t, ents) ==
    {pos \in {<<x, y + 1>>, <<x, y - 1>>, <<x + 1, y>>, <<x - 1, y>>} :
        /\ pos \in DOMAIN t
        /\ t[pos] = "."
        /\ ~\E i \in DOMAIN ents :
               is_alive(ents[i]) /\ ents[i].x = pos[1] /\ ents[i].y = pos[2]}

InCombat == pc \in {"combat_player", "combat_enemy", "combat_end"}

combatFrame == <<game_over, current_level_num, width, height, tiles, rooms, player_start,
                 exit_location, shop_location, items_on_map, traps_on_map, gen,
                 shop_items, save_file, sprung_traps, turns, next_id>>

\* the state after a combatant's step that left player p, engaged enemy e,
\* entities ents and combat_active active
AfterStep(p, e, ents, active, op) ==
    LET n == next_step(p, e, active, combat.order, combat.idx)
        new_round == n[1] # "combat_end" /\ n[3] = 1
    IN  /\ player' = p
        /\ entities' = ents
        /\ combat' = [combat EXCEPT !.enemy = e, !.active = active,
                                    !.order = n[2], !.idx = n[3],
                                    !.prev_first = IF new_round THEN combat.order[1] ELSE @]
        /\ pc' = n[1]
        /\ last' = op
        /\ UNCHANGED combatFrame

\* 'a', line 1290
CombatAttack ==
    /\ pc = "combat_player"
    /\ LET e == attack_target(player, combat.enemy)
       IN  AfterStep(player, e, sync_entities(entities, e), TRUE, [op |-> "attack"])

\* 'i' answered by 'b' or met by an empty inventory: handle_inventory returns
\* False and line 1298 continues the for loop
CombatInventoryBack ==
    /\ pc = "combat_player"
    /\ AfterStep(player, combat.enemy, entities, TRUE, [op |-> "inventory_back"])

\* 'i' and an accepted item number
CombatInventory ==
    /\ pc = "combat_player"
    /\ \E i \in 1..Len(player.inventory) :
         /\ inventory_choice_accepted(player, i)
         /\ AfterStep(inventory_choice(player, i), combat.enemy, entities, TRUE,
                      [op |-> "inventory", index |-> i])

\* 'f', lines 1300-1304 with attempt_flee; escaped: random.random() < flee_chance
CombatFlee ==
    /\ pc = "combat_player"
    /\ \E escaped \in BOOLEAN :
         IF escaped
         THEN LET possible_moves ==
                      free_adjacent_tiles(player.x, player.y, tiles, entities)
              IN  IF possible_moves = {}
                  THEN AfterStep(player, combat.enemy, entities, FALSE,
                                 [op |-> "flee", escaped |-> TRUE])
                  ELSE \E pos \in possible_moves :
                         AfterStep([player EXCEPT !.x = pos[1], !.y = pos[2]],
                                   combat.enemy, entities, FALSE,
                                   [op |-> "flee", escaped |-> TRUE])
         ELSE AfterStep(player, combat.enemy, entities, TRUE,
                        [op |-> "flee", escaped |-> FALSE])

\* an energy test that lets every skill through
can_pay_always(p, name) == TRUE

\* the energy test of line 1436
can_pay(p, name) == p.energy >= skill_cost(name)

\* 'k' answered by 'b', directly (i = 0) or after skill i was refused for lack
\* of energy: handle_skills returns False and line 1308 continues the for loop
CombatSkillBack ==
    /\ pc = "combat_player"
    /\ player.learned_skills # <<>>
    /\ \E i \in 0..Len(player.learned_skills) :
         /\ i > 0 => ~can_pay(player, player.learned_skills[i])
         /\ AfterStep(player, combat.enemy, entities, TRUE,
                      [op |-> "skill_back", refused |-> i > 0])

\* 'k' and a skill number the energy pays for, lines 1436-1444
CombatSkill ==
    /\ pc = "combat_player"
    /\ \E i \in 1..Len(player.learned_skills) :
         LET name == player.learned_skills[i]
             p == [player EXCEPT !.energy = @ - skill_cost(name)]
         IN  /\ can_pay(player, name)
             /\ IF name = "Grenade Toss"
                THEN LET ents == grenade_toss_effect(p, entities)
                     IN  AfterStep(p, engaged_after(ents, combat.enemy),
                                   alive_only(ents), TRUE,
                                   [op |-> "skill", name |-> name])
                ELSE LET r == skill_effect(name, p, combat.enemy)
                     IN  AfterStep(r[1], r[2], sync_entities(entities, r[2]), TRUE,
                                   [op |-> "skill", name |-> name])

\* the enemy's step, line 1311
CombatEnemy ==
    /\ pc = "combat_enemy"
    /\ AfterStep(attack_target(combat.enemy, player), combat.enemy, entities, TRUE,
                 [op |-> "enemy_attack"])

\* the outcome the end of combat_round acts on
Outcome(p, e) ==
    IF ~is_alive(p) THEN "PlayerDefeated"
    ELSE IF ~is_alive(e) THEN "EnemyDefeated"
    ELSE "Fled"

\* rewards that hand over the dropped item twice
combat_rewards_with_double_drop(p, e) ==
    LET q == [add_xp(p, e.xp_value) EXCEPT !.credits = @ + e.credit_value]
    IN  IF e.item_drop # NoItem
        THEN [q EXCEPT !.inventory = Append(Append(@, e.item_drop), e.item_drop)]
        ELSE q

\* the player after the rewards of lines 1323-1328
combat_rewards(p, e) ==
    LET q == [add_xp(p, e.xp_value) EXCEPT !.credits = @ + e.credit_value]
    IN  IF e.item_drop # NoItem
        THEN [q EXCEPT !.inventory = Append(@, e.item_drop)]
        ELSE q

\* a reset that restores the speed and forgets the defense
reset_speed_only(p, initial_speed, initial_defense) ==
    [p EXCEPT !.speed = initial_speed]

\* lines 1315-1316
reset_boosts(p, initial_speed, initial_defense) ==
    [p EXCEPT !.speed = initial_speed, !.defense = initial_defense]

\* lines 1314-1332, and the return to the main loop
CombatEnd ==
    /\ pc = "combat_end"
    /\ LET p == reset_boosts(player, combat.initial_speed, combat.initial_defense)
           outcome == Outcome(p, combat.enemy)
       IN  /\ player' = IF outcome = "EnemyDefeated"
                        THEN combat_rewards(p, combat.enemy) ELSE p
           /\ game_over' = (game_over \/ outcome = "PlayerDefeated")
           /\ entities' = IF outcome = "EnemyDefeated"
                          THEN alive_only(entities) ELSE entities
           /\ last' = [op |-> "combat_end", outcome |-> outcome]
    /\ pc' = "turn_end"
    /\ UNCHANGED <<current_level_num, width, height, tiles, rooms, player_start,
                   exit_location, shop_location, items_on_map, traps_on_map, gen,
                   combat, shop_items, save_file, sprung_traps, turns, next_id>>

-----------------------------------------------------------------------------
(* The end of a turn in main_game_loop, lines 1064-1119.                   *)

\* an enemy's action without the test of line 1101: the pursuit step may land on
\* the player's tile
enemy_act_stepping_onto_the_player(p, ents, i, t) ==
    LET enemy == ents[i]
        dx == Abs(enemy.x - p.x)
        dy == Abs(enemy.y - p.y)
        new_x == IF p.x > enemy.x THEN enemy.x + 1
                 ELSE IF p.x < enemy.x THEN enemy.x - 1 ELSE enemy.x
        new_y == IF p.y > enemy.y THEN enemy.y + 1
                 ELSE IF p.y < enemy.y THEN enemy.y - 1 ELSE enemy.y
        can_move ==
            /\ <<new_x, new_y>> \in DOMAIN t
            /\ t[<<new_x, new_y>>] # "#"
            /\ ~\E j \in DOMAIN ents :
                   /\ ents[j].id # enemy.id
                   /\ is_alive(ents[j])
                   /\ ents[j].x = new_x /\ ents[j].y = new_y
    IN  IF ~is_alive(enemy) THEN <<p, ents>>
        ELSE IF (dx = 1 /\ dy = 0) \/ (dx = 0 /\ dy = 1)
        THEN <<attack_target(enemy, p), ents>>
        ELSE IF can_move
        THEN <<p, [ents EXCEPT ![i] = [enemy EXCEPT !.x = new_x, !.y = new_y]]>>
        ELSE <<p, ents>>

\* one enemy's action in the enemy phase, lines 1081-1106: <<player, entities>>
enemy_act(p, ents, i, t) ==
    LET enemy == ents[i]
        dx == Abs(enemy.x - p.x)
        dy == Abs(enemy.y - p.y)
        new_x == IF p.x > enemy.x THEN enemy.x + 1
                 ELSE IF p.x < enemy.x THEN enemy.x - 1 ELSE enemy.x
        new_y == IF p.y > enemy.y THEN enemy.y + 1
                 ELSE IF p.y < enemy.y THEN enemy.y - 1 ELSE enemy.y
        can_move ==
            /\ <<new_x, new_y>> \in DOMAIN t
            /\ t[<<new_x, new_y>>] # "#"
            /\ ~\E j \in DOMAIN ents :
                   /\ ents[j].id # enemy.id
                   /\ is_alive(ents[j])
                   /\ ents[j].x = new_x /\ ents[j].y = new_y
            /\ <<new_x, new_y>> # <<p.x, p.y>>
    IN  IF ~is_alive(enemy) THEN <<p, ents>>
        ELSE IF (dx = 1 /\ dy = 0) \/ (dx = 0 /\ dy = 1)
        THEN <<attack_target(enemy, p), ents>>
        ELSE IF can_move
        THEN <<p, [ents EXCEPT ![i] = [enemy EXCEPT !.x = new_x, !.y = new_y]]>>
        ELSE <<p, ents>>

\* the for loop of line 1079 from entity i on
RECURSIVE enemy_phase_from(_, _, _, _)
enemy_phase_from(p, ents, i, t) ==
    IF i > Len(ents) THEN <<p, ents>>
    ELSE LET r == enemy_act(p, ents, i, t)
         IN  enemy_phase_from(r[1], r[2], i + 1, t)

\* an enemy phase that runs the loop a second time
enemy_phase_twice(p, ents, t) ==
    LET r == enemy_phase_from(p, ents, 1, t)
    IN  enemy_phase_from(r[1], r[2], 1, t)

enemy_phase(p, ents, t) == enemy_phase_from(p, ents, 1, t)

TurnEnd ==
    /\ pc = "turn_end"
    /\ IF game_over
       THEN /\ pc' = "over"
            /\ UNCHANGED <<player, entities, game_over>>
       ELSE IF player.crystals_collected >= CRYSTALS_TO_WIN
       THEN /\ game_over' = TRUE
            /\ pc' = "over"
            /\ UNCHANGED <<player, entities>>
       ELSE LET r == IF is_alive(player)
                     THEN enemy_phase(player, entities, tiles)
                     ELSE <<player, entities>>
            IN  /\ player' = r[1]
                /\ entities' = r[2]
                /\ game_over' = ~is_alive(r[1])
                /\ pc' = IF is_alive(r[1]) THEN "explore" ELSE "over"
    /\ last' = [op |-> "turn_end"]
    /\ UNCHANGED <<current_level_num, width, height, tiles, rooms, player_start,
                   exit_location, shop_location, items_on_map, traps_on_map, gen,
                   combat, shop_items, save_file, sprung_traps, turns, next_id>>

CombatNext ==
    \/ CombatAttack
    \/ CombatInventoryBack
    \/ CombatInventory
    \/ CombatFlee
    \/ CombatSkillBack
    \/ CombatSkill
    \/ CombatEnemy
    \/ CombatEnd
    \/ TurnEnd

-----------------------------------------------------------------------------
(* generate_level, lines 1003-1010: a whole run of generate_map for one    *)
(* choice of its draws, composed of the steps above.  The game is explored *)
(* on the floors the draws below produce.                                  *)

MaxTurns == 4

\* the room loop for a sequence of draws <<w, h, x, y>>
RECURSIVE rooms_loop(_, _)
rooms_loop(f, room_draws) ==
    IF room_draws = <<>> THEN f
    ELSE rooms_loop(try_room(f, room_draws[1][1], room_draws[1][2],
                             room_draws[1][3], room_draws[1][4]),
                    Tail(room_draws))

\* the room draws of the game floors: a smallest room at the top left, then
\* smallest rooms at the bottom left (the repeats are rejected as overlapping)
GameRoomDraws ==
    {[i \in 1..MAX_ROOMS |->
        IF i = 1 THEN <<ROOM_MIN_SIZE, ROOM_MIN_SIZE, 1, 1>>
        ELSE <<ROOM_MIN_SIZE, ROOM_MIN_SIZE, 1, MAP_HEIGHT - ROOM_MIN_SIZE - 1>>]}

FirstDraw(pool) == IF pool = <<>> THEN {} ELSE {pool[1]}

\* the exit loop ends with a tile far enough from the start: the first such
\* tile of the pool
GameExitDraws(f) ==
    FirstDraw(SelectSeq(f.pool,
        LAMBDA pos : exit_far_enough(pos, f.player_start, f.width, f.height)))

GameShopDraws(f) == FirstDraw(f.pool)

RECURSIVE traps_loop(_, _)
traps_loop(f, n) ==
    IF n = 0 \/ f.pool = <<>> THEN {f}
    ELSE UNION {traps_loop(place_trap(f, pos), n - 1) : pos \in FirstDraw(f.pool)}

\* the enemies of a game floor, <<tile, archetype, drop>>: a Cyber-Drone without
\* a drop at the first tile of the pool, or one with a drop at the last
GameEnemyDraws(f) ==
    IF f.pool = <<>> THEN {}
    ELSE {<<f.pool[1], 1, "None">>, <<f.pool[Len(f.pool)], 1, "Health Potion">>}

GameItemDraws(f) == FirstDraw(f.pool) \X {"Plasma Rifle"}

\* generate_map over the given room draws
FloorsFrom(room_draws, player_level, level_num, is_shop_floor, first_id) ==
    LET f0 == NewFloor(MAP_WIDTH, MAP_HEIGHT, first_id)
        F1 == {connect_and_collect(rooms_loop(f0, rd)) : rd \in room_draws}
        F2 == UNION {{place_start(f, pos) : pos \in FirstDraw(f.pool)} :
                        f \in {g \in F1 : g.pool # <<>>}}
        F3 == UNION {{draw_exit(f, pos) : pos \in GameExitDraws(f)} : f \in F2}
        F4 == IF is_shop_floor
              THEN UNION {{draw_shop(f, pos) : pos \in GameShopDraws(f)} : f \in F3}
              ELSE F3
        F5 == UNION {traps_loop(f, num_traps(f.pool)) : f \in F4}
        F6 == UNION {{place_enemy(f, d[1], player_level, d[2], d[3]) :
                         d \in GameEnemyDraws(f)} : f \in F5}
        F7 == UNION {{place_item(f, d[1], d[2]) : d \in GameItemDraws(f)} : f \in F6}
        F8 == UNION {{try_crystal(f, pos, TRUE) : pos \in FirstDraw(f.pool)} : f \in F7}
    IN  F6 \cup F8

GameFloorsFor(player_level, level_num, is_shop_floor, first_id) ==
    FloorsFrom(GameRoomDraws, player_level, level_num, is_shop_floor, first_id)

generate_level(player_level, level_num, first_id) ==
    GameFloorsFor(player_level, level_num, (level_num % 5 = 0) /\ (level_num > 0), first_id)

-----------------------------------------------------------------------------
(* Exploration: move_player lines 1135-1210, rest_player lines 1213-1259,  *)
(* and the inventory branch of main_game_loop.                             *)

Delta(direction) ==
    CASE direction = "w" -> <<0, -1>>
      [] direction = "s" -> <<0, 1>>
      [] direction = "a" -> <<-1, 0>>
      [] direction = "d" -> <<1, 0>>

\* index of the first living enemy at pos, 0 when there is none (lines 1171-1174)
enemy_at(ents, pos) ==
    LET S == {i \in DOMAIN ents :
                 is_alive(ents[i]) /\ ents[i].x = pos[1] /\ ents[i].y = pos[2]}
    IN  IF S = {} THEN 0 ELSE CHOOSE i \in S : \A j \in S : i <= j

NoTrap == [x |-> -1, y |-> -1, damage |-> 0, triggered |-> FALSE]

\* del traps_on_map[pos]
del_trap(traps, pos) == [q \in (DOMAIN traps) \ {pos} |-> traps[q]]

\* pick_up that also puts the crystal into the inventory
pick_up_crystal_into_inventory(p, item) ==
    IF item.name = "Energy Crystal"
    THEN [p EXCEPT !.crystals_collected = @ + 1, !.inventory = Append(@, item)]
    ELSE [p EXCEPT !.inventory = Append(@, item)]

\* items_on_map.pop(pos) and lines 1187-1192: the player after the pickup
pick_up(p, item) ==
    IF item.name = "Energy Crystal"
    THEN [p EXCEPT !.crystals_collected = @ + 1]
    ELSE [p EXCEPT !.inventory = Append(@, item)]

Move ==
    /\ pc = "explore"
    /\ turns < MaxTurns
    /\ \E direction \in {"w", "a", "s", "d"}, proceed \in BOOLEAN :
         LET new == <<player.x + Delta(direction)[1], player.y + Delta(direction)[2]>>
             wall == new \notin DOMAIN tiles \/ tiles[new] = "#"
             hit == ~wall /\ new \in DOMAIN traps_on_map /\ ~traps_on_map[new].triggered
             sprung == IF hit THEN trap_trigger(traps_on_map[new], player)
                       ELSE <<NoTrap, player>>
             p1 == sprung[2]
             traps1 == IF hit THEN del_trap(traps_on_map, new) ELSE traps_on_map
             target == IF wall THEN 0 ELSE enemy_at(entities, new)
             p2 == [p1 EXCEPT !.x = new[1], !.y = new[2]]
             found == new \in DOMAIN items_on_map
             p3 == IF found THEN pick_up(p2, items_on_map[new]) ELSE p2
             items1 == IF found
                       THEN [q \in (DOMAIN items_on_map) \ {new} |-> items_on_map[q]]
                       ELSE items_on_map
             step == [op |-> "move", target |-> new, trap |-> sprung[1], wall |-> wall]
             descends == /\ ~wall /\ is_alive(p1) /\ target = 0
                         /\ new # shop_location /\ new = exit_location /\ proceed
         IN  /\ turns' = turns + 1
             /\ sprung_traps' = IF descends THEN <<>>
                                ELSE IF hit THEN (new :> sprung[1]) @@ sprung_traps
                                ELSE sprung_traps
             /\ IF wall \/ ~is_alive(p1)
                THEN \* lines 1150-1153, or the return of line 1164
                     /\ player' = p1
                     /\ traps_on_map' = traps1
                     /\ pc' = "turn_end"
                     /\ last' = step
                     /\ UNCHANGED <<current_level_num, width, height, tiles, rooms,
                                    player_start, exit_location, shop_location,
                                    entities, items_on_map, combat, next_id>>
                ELSE IF target > 0
                THEN \* lines 1176-1180
                     /\ player' = p1
                     /\ traps_on_map' = traps1
                     /\ combat' = enter_combat(p1, entities[target])
                     /\ pc' = enter_pc(p1, entities[target])
                     /\ last' = step
                     /\ UNCHANGED <<current_level_num, width, height, tiles, rooms,
                                    player_start, exit_location, shop_location,
                                    entities, items_on_map, next_id>>
                ELSE IF new = shop_location
                THEN \* lines 1182-1197: the shop opens
                     /\ player' = p3
                     /\ traps_on_map' = traps1
                     /\ items_on_map' = items1
                     /\ pc' = "shop"
                     /\ last' = step
                     /\ UNCHANGED <<current_level_num, width, height, tiles, rooms,
                                    player_start, exit_location, shop_location,
                                    entities, combat, next_id>>
                ELSE IF new = exit_location /\ proceed
                THEN \* lines 1200-1206
                     /\ current_level_num' = current_level_num + 1
                     /\ \E f \in generate_level(p3.level, current_level_num + 1, next_id) :
                          /\ SetMap(f)
                          /\ player' = [p3 EXCEPT !.x = f.player_start[1],
                                                  !.y = f.player_start[2]]
                     /\ pc' = "turn_end"
                     /\ last' = [step EXCEPT !.op = "descend"]
                     /\ UNCHANGED combat
                ELSE /\ player' = p3
                     /\ traps_on_map' = traps1
                     /\ items_on_map' = items1
                     /\ pc' = "turn_end"
                     /\ last' = step
                     /\ UNCHANGED <<current_level_num, width, height, tiles, rooms,
                                    player_start, exit_location, shop_location,
                                    entities, combat, next_id>>
    /\ UNCHANGED <<game_over, gen, shop_items, save_file>>

\* the ambushers rest_player draws: <<archetype, drop>>
AmbushKinds == {<<1, "None">>}

Rest ==
    /\ pc = "explore"
    /\ turns < MaxTurns
    /\ LET p == [player EXCEPT !.hp = Min(player.max_hp, player.hp + REST_HEAL_AMOUNT),
                               !.energy = Min(player.max_energy,
                                              player.energy + REST_ENERGY_AMOUNT)]
       IN  \E ambush \in BOOLEAN :
             IF ambush
             THEN \E kind \in AmbushKinds :
                    LET drop == IF kind[2] = "None" THEN NoItem
                                ELSE NewItem(next_id, kind[2])
                        ambush_enemy ==
                            create_random_enemy(next_id + 1, p.level, kind[1], drop)
                        possible_spawn_locs ==
                            free_adjacent_tiles(p.x, p.y, tiles, entities)
                    IN  /\ player' = p
                        /\ next_id' = next_id + 2
                        /\ IF possible_spawn_locs = {}
                           THEN /\ combat' = enter_combat(p, ambush_enemy)
                                /\ pc' = enter_pc(p, ambush_enemy)
                                /\ UNCHANGED entities
                           ELSE \E pos \in possible_spawn_locs :
                                  LET e == [ambush_enemy EXCEPT !.x = pos[1], !.y = pos[2]]
                                  IN  /\ entities' = Append(entities, e)
                                      /\ combat' = enter_combat(p, e)
                                      /\ pc' = enter_pc(p, e)
                        /\ last' = [op |-> "rest", ambush |-> TRUE]
             ELSE /\ player' = p
                  /\ pc' = "turn_end"
                  /\ last' = [op |-> "rest", ambush |-> FALSE]
                  /\ UNCHANGED <<entities, combat, next_id>>
    /\ turns' = turns + 1
    /\ UNCHANGED <<game_over, current_level_num, width, height, tiles, rooms,
                   player_start, exit_location, shop_location, items_on_map,
                   traps_on_map, gen, shop_items, save_file, sprung_traps>>

\* 'i' and an accepted item number outside combat: the turn is consumed
Inventory ==
    /\ pc = "explore"
    /\ turns < MaxTurns
    /\ \E i \in 1..Len(player.inventory) :
         /\ inventory_choice_accepted(player, i)
         /\ player' = inventory_choice(player, i)
         /\ last' = [op |-> "inventory", index |-> i]
    /\ pc' = "turn_end"
    /\ turns' = turns + 1
    /\ UNCHANGED <<game_over, current_level_num, mapVars, gen, combat, shop_items, save_file,
                   next_id, sprung_traps>>

\* JSON null
JsonNull == "null"

\* a save file that holds the JSON object data
JsonFile(data) == [kind |-> "json", data |-> data]

\* item.name if item else None
json_name(item) == IF item = NoItem THEN JsonNull ELSE item.name

\* save_game, lines 833-876: the JSON object written to the save file
save_game(p, level_num) ==
    [current_level_num |-> level_num,
     player_data |->
        [name |-> p.name, hp |-> p.hp, max_hp |-> p.max_hp, attack |-> p.attack,
         defense |-> p.defense, speed |-> p.speed, level |-> p.level, xp |-> p.xp,
         xp_to_next_level |-> p.xp_to_next_level, class_type |-> p.class_type,
         max_energy |-> p.max_energy, energy |-> p.energy, credits |-> p.credits,
         crystals_collected |-> p.crystals_collected, x |-> p.x, y |-> p.y,
         inventory |-> [i \in DOMAIN p.inventory |-> p.inventory[i].name],
         equipped_weapon |-> json_name(p.equipped_weapon),
         equipped_armor |-> json_name(p.equipped_armor),
         learned_skills |-> p.learned_skills]]

\* the choices of the exploration prompt that take no turn: 's' (stats), 'l'
\* (look_around), 'i' left with 'b' or met by an empty inventory, and a key
\* the prompt does not know (lines 1038-1062)
NoTurnChoices == {"stats", "look", "inventory_back", "invalid"}

ExploreNoTurn ==
    /\ pc = "explore"
    /\ \E choice \in NoTurnChoices : last' = [op |-> choice]
    /\ UNCHANGED <<player, game_over, current_level_num, mapVars, pc, gen, combat,
                   shop_items, save_file, sprung_traps, turns, next_id>>

\* 'q': handle_quit_game (lines 1126-1132) saves on 'y' and ends the game
Quit ==
    /\ pc = "explore"
    /\ \E save \in BOOLEAN :
         /\ save_file' = IF save THEN JsonFile(save_game(player, current_level_num))
                                ELSE save_file
         /\ last' = [op |-> "quit", saved |-> save]
    /\ game_over' = TRUE
    /\ pc' = "turn_end"
    /\ UNCHANGED <<player, current_level_num, mapVars, gen, combat, shop_items,
                   sprung_traps, turns, next_id>>

\* start_game for a new game: character_creation, then generate_level
\* a level-1 character at the start of floor level_num with the given crystals
GameStart(level_num, crystals) ==
    /\ game_over = FALSE
    /\ current_level_num = level_num
    /\ \E c \in 1..3, f \in generate_level(1, level_num, 3) :
         /\ player = [character_creation(c) EXCEPT !.x = f.player_start[1],
                                                   !.y = f.player_start[2],
                                                   !.crystals_collected = crystals]
         /\ width = f.width
         /\ height = f.height
         /\ tiles = f.tiles
         /\ rooms = f.rooms
         /\ player_start = f.player_start
         /\ exit_location = f.exit_location
         /\ shop_location = f.shop_location
         /\ entities = f.entities
         /\ items_on_map = f.items_on_map
         /\ traps_on_map = f.traps_on_map
         /\ next_id = f.next_id
    /\ pc = "explore"
    /\ gen = NoGen
    /\ combat = NoCombat
    /\ shop_items = <<>>
    /\ save_file = NoFile
    /\ turns = 0
    /\ sprung_traps = <<>>
    /\ last = NoOp

\* the program after character_creation and generate_level (start_game without a save)
Init == GameStart(0, 0)

Next ==
    \/ Move
    \/ Rest
    \/ Inventory
    \/ ExploreNoTurn
    \/ Quit
    \/ CombatNext

Spec == Init /\ [][Next]_vars

-----------------------------------------------------------------------------
(* Encounters in the middle of a game: a player who has levelled up,       *)
(* picked items up and been wounded is ambushed while resting on a fresh   *)
(* floor (rest_player, lines 1227-1255), and the encounter is followed to  *)
(* its end and to the end of the turn.                                     *)

\* level-ups by add_xp, each with exactly the xp that is missing
RECURSIVE level_to(_, _)
level_to(p, level) ==
    IF p.level >= level THEN p
    ELSE level_to(add_xp(p, p.xp_to_next_level - p.xp), level)

\* the items named by names, picked up one after the other as objects id, id+1, ...
RECURSIVE picked_up(_, _, _)
picked_up(p, names, id) ==
    IF names = <<>> THEN p
    ELSE picked_up(pick_up(p, NewItem(id, Head(names))), Tail(names), id + 1)

\* The encounters explored.  class and level of the player, the hp left to
\* the player (0: unwounded), the items picked up before, and the archetype
\* and drop of the ambusher.
CombatCases ==
    {[class |-> 1, level |-> 1, hp_left |-> 0,
      pickups |-> <<"Health Potion", "Reinforced Vest">>, kind |-> 2, drop |-> "None"],
     [class |-> 1, level |-> 1, hp_left |-> 7,
      pickups |-> <<"Health Potion", "Plasma Rifle">>, kind |-> 4, drop |-> "Laser Pistol"],
     [class |-> 1, level |-> 5, hp_left |-> 40,
      pickups |-> <<>>, kind |-> 4, drop |-> "Energy Pack"],
     [class |-> 1, level |-> 5, hp_left |-> 0,
      pickups |-> <<"Energy Pack">>, kind |-> 1, drop |-> "None"],
     [class |-> 1, level |-> 5, hp_left |-> 0,
      pickups |-> <<"Energy Pack">>, kind |-> 4, drop |-> "None"],
     [class |-> 2, level |-> 3, hp_left |-> 20,
      pickups |-> <<"Energy Cell">>, kind |-> 4, drop |-> "None"],
     [class |-> 3, level |-> 2, hp_left |-> 0,
      pickups |-> <<>>, kind |-> 1, drop |-> "None"],
     [class |-> 3, level |-> 10, hp_left |-> 60,
      pickups |-> <<>>, kind |-> 4, drop |-> "None"]}

\* the floor of the encounters: one Cyber-Drone without a drop, no item
CombatFloors(player_level) ==
    {f \in generate_level(player_level, 1, 5) :
        f.items_on_map = <<>> /\ f.entities[1].item_drop = NoItem}

CombatInit ==
    /\ game_over = FALSE
    /\ current_level_num = 1
    /\ \E case \in CombatCases :
         LET p0 == picked_up(level_to(character_creation(case.class), case.level),
                             case.pickups, 3)
             p1 == IF case.hp_left > 0 THEN take_damage(p0, p0.max_hp - case.hp_left) ELSE p0
         IN  \E f \in CombatFloors(p1.level) :
               LET p == [p1 EXCEPT !.x = f.player_start[1], !.y = f.player_start[2]]
                   drop == IF case.drop = "None" THEN NoItem ELSE NewItem(f.next_id, case.drop)
                   ambush_enemy == create_random_enemy(f.next_id + 1, p.level, case.kind, drop)
                   possible_spawn_locs == free_adjacent_tiles(p.x, p.y, f.tiles, f.entities)
               IN  \E pos \in possible_spawn_locs :
                     LET e == [ambush_enemy EXCEPT !.x = pos[1], !.y = pos[2]]
                     IN  /\ player = p
                         /\ width = f.width
                         /\ height = f.height
                         /\ tiles = f.tiles
                         /\ rooms = f.rooms
                         /\ player_start = f.player_start
                         /\ exit_location = f.exit_location
                         /\ shop_location = f.shop_location
                         /\ entities = Append(f.entities, e)
                         /\ items_on_map = f.items_on_map
                         /\ traps_on_map = f.traps_on_map
                         /\ next_id = f.next_id + 2
                         /\ combat = enter_combat(p, e)
                         /\ pc = enter_pc(p, e)
    /\ gen = NoGen
    /\ shop_items = <<>>
    /\ save_file = NoFile
    /\ turns = MaxTurns
    /\ sprung_traps = <<>>
    /\ last = [op |-> "rest", ambush |-> TRUE]

SpecCombat == CombatInit /\ [][CombatNext]_vars

\* The game from character creation together with the encounters above.
AllInit == Init \/ CombatInit

SpecAll == AllInit /\ [][Next]_vars

-----------------------------------------------------------------------------
(* Properties of the game.                                                 *)

EntityHpInRange(e) ==
    /\ 0 <= e.hp
    /\ e.hp <= e.max_hp
    /\ is_alive(e) <=> e.hp > 0

\* C1: in every reachable state the player and every enemy (those on the
\* floor and the engaged one) have 0 <= hp <= max_hp, and is_alive holds
\* exactly when hp > 0.
C1_HpWithinBounds ==
    /\ EntityHpInRange(player)
    /\ \A i \in DOMAIN entities : EntityHpInRange(entities[i])
    /\ InCombat => EntityHpInRange(combat.enemy)

\* an enemy's attack worth more than the hp the player had left ended at hp 0
C1_Witness ==
    /\ pc = "combat_end"
    /\ last.op = "enemy_attack"
    /\ player.hp = 0

\* C2: at the start of every round the combatants list is the player and the
\* engaged enemy by descending speed, the player first on equal speeds; the
\* step taken is the one of the combatant at the loop position; and within a
\* round the list stays as computed at its start.
C2_OrderBySpeedEachRound ==
    /\ [](pc \in {"combat_player", "combat_enemy"} =>
             /\ pc = StepPc(combat.order[combat.idx])
             /\ combat.idx = 1 =>
                    /\ combat.order[1] = "player" <=> player.speed >= combat.enemy.speed
                    /\ combat.order[2] = (IF combat.order[1] = "player"
                                          THEN "enemy" ELSE "player"))
    /\ [][(InCombat /\ pc' \in {"combat_player", "combat_enemy"} /\ combat'.idx = 2) =>
             /\ combat.idx = 1
             /\ combat'.order = combat.order]_vars

\* a round the player opens after a round the enemy opened: the speed skill
\* used in between moved the player ahead
C2_Witness ==
    /\ pc = "combat_player"
    /\ combat.idx = 1
    /\ combat.prev_first = "enemy"
    /\ player.speed > combat.initial_speed
    /\ combat.initial_speed < combat.enemy.speed

\* C3: when an encounter ends, exactly one of: the player's hp is 0, the
\* engaged enemy's hp is 0, a flee attempt succeeded; the outcome acted on is
\* that one; after Fled both are alive.
C3_ExactlyOneOutcome ==
    /\ pc = "combat_end" =>
           LET dead == IF is_alive(player) THEN 0 ELSE 1
               killed == IF is_alive(combat.enemy) THEN 0 ELSE 1
               fled == IF combat.active THEN 0 ELSE 1
           IN  dead + killed + fled = 1
    /\ last.op = "combat_end" =>
           /\ last.outcome = "PlayerDefeated" <=> ~is_alive(player)
           /\ last.outcome = "EnemyDefeated" <=> ~is_alive(combat.enemy)
           /\ last.outcome = "Fled" <=> ~combat.active
           /\ last.outcome = "Fled" => is_alive(player) /\ is_alive(combat.enemy)

\* the player, first in the round, killed the enemy with a hit left to die from
C3_Witness ==
    /\ pc = "combat_end"
    /\ combat.order[1] = "player"
    /\ combat.idx = 1
    /\ ~is_alive(combat.enemy)
    /\ is_alive(player)
    /\ player.hp <= AttackDamage(combat.enemy, player)

\* C4: after the player backs out of the inventory menu or of the skill menu
\* in combat, the next step of the encounter is the player's prompt again.
C4_BackOutKeepsTheStep ==
    (InCombat /\ last.op \in {"inventory_back", "skill_back"}) => pc = "combat_player"

\* the objects held in equipment slots
Equipped(p) == {p.equipped_weapon, p.equipped_armor} \ {NoItem}

\* C6: no item object is both in the inventory and in an equipment slot, and
\* none occurs twice in the inventory.
C6_ItemsHeldOnce ==
    /\ Range(player.inventory) \cap Equipped(player) = {}
    /\ \A i, j \in DOMAIN player.inventory :
           player.inventory[i] = player.inventory[j] => i = j

C8_TrapFiresOnce ==
    /\ [](\A pos \in DOMAIN sprung_traps :
             /\ sprung_traps[pos].triggered
             /\ trap_trigger(sprung_traps[pos], player) = <<sprung_traps[pos], player>>)
    /\ [][(pc = "explore" /\ last'.op = "move") =>
             LET new == last'.target
             IN  IF ~last'.wall /\ new \in DOMAIN traps_on_map
                 THEN /\ player'.hp = IF player.class_type = "scout" THEN player.hp
                                      ELSE Max(0, player.hp - traps_on_map[new].damage)
                      /\ new \notin DOMAIN traps_on_map'
                      /\ \A q \in (DOMAIN traps_on_map) \ {new} :
                             q \in DOMAIN traps_on_map' /\ traps_on_map'[q] = traps_on_map[q]
                      /\ DOMAIN traps_on_map' \subseteq DOMAIN traps_on_map
                 ELSE /\ player'.hp = player.hp
                      /\ traps_on_map' = traps_on_map]_vars

\* a non-scout stands again on the tile of a trap triggered before
C8_Witness ==
    /\ last.op = "move"
    /\ last.target \in DOMAIN sprung_traps
    /\ last.trap = NoTrap
    /\ <<player.x, player.y>> = last.target
    /\ player.class_type # "scout"
    /\ player.hp = player.max_hp - sprung_traps[last.target].damage

\* C14: when an encounter ends with the engaged enemy dead and the player
\* alive, the player gets exactly enemy.xp_value through add_xp (one level-up
\* when the threshold is reached), credits grow by exactly enemy.credit_value,
\* the enemy's item_drop (if any) is appended to the inventory exactly once,
\* and the enemy is no longer in the entity list; when it ends as Fled or
\* PlayerDefeated, xp, level, credits and inventory are left as they were.
C14_RewardsOnlyForDefeatedEnemy ==
    [][pc = "combat_end" =>
         LET e == combat.enemy
             total == player.xp + e.xp_value
         IN  IF is_alive(player) /\ ~is_alive(e)
             THEN /\ last'.outcome = "EnemyDefeated"
                  /\ IF total >= player.xp_to_next_level
                     THEN /\ player'.level = player.level + 1
                          /\ player'.xp = total - player.xp_to_next_level
                     ELSE /\ player'.level = player.level
                          /\ player'.xp = total
                  /\ player'.credits = player.credits + e.credit_value
                  /\ player'.inventory =
                         IF e.item_drop = NoItem THEN player.inventory
                         ELSE Append(player.inventory, e.item_drop)
                  /\ \A i \in DOMAIN entities' : entities'[i].id # e.id
             ELSE /\ last'.outcome \in {"Fled", "PlayerDefeated"}
                  /\ player'.xp = player.xp
                  /\ player'.level = player.level
                  /\ player'.xp_to_next_level = player.xp_to_next_level
                  /\ player'.credits = player.credits
                  /\ player'.inventory = player.inventory
                  /\ entities' = entities]_vars

\* a defeated enemy that was on the map and carried an item
C14_Witness ==
    /\ pc = "turn_end"
    /\ last = [op |-> "combat_end", outcome |-> "EnemyDefeated"]
    /\ combat.enemy.item_drop # NoItem
    /\ player.inventory # <<>>
    /\ player.inventory[Len(player.inventory)] = combat.enemy.item_drop
    /\ player.credits = combat.enemy.credit_value

\* C15: when an encounter ends, player.speed and player.defense are reset to
\* the values recorded at combat entry, whatever boosts were used in between;
\* the reset comes before the XP award, so after EnemyDefeated with a level-up
\* they are the entry values plus 1 (speed) and plus 2 (defense), and in every
\* other case exactly the entry values.  The recorded values are the player's
\* speed and defense at the moment combat_round is entered and do not change
\* while the encounter lasts.
C15_BoostsResetAtCombatEnd ==
    /\ [][(~InCombat /\ InCombat') =>
             /\ combat'.initial_speed = player'.speed
             /\ combat'.initial_defense = player'.defense]_vars
    /\ [][(InCombat /\ InCombat') =>
             /\ combat'.initial_speed = combat.initial_speed
             /\ combat'.initial_defense = combat.initial_defense]_vars
    /\ [][pc = "combat_end" =>
             IF last'.outcome = "EnemyDefeated" /\ player'.level = player.level + 1
             THEN /\ player'.speed = combat.initial_speed + 1
                  /\ player'.defense = combat.initial_defense + 2
             ELSE /\ player'.level = player.level
                  /\ player'.speed = combat.initial_speed
                  /\ player'.defense = combat.initial_defense]_vars

\* a scout who paid for Burst of Speed and Stealth Field and is back at the
\* entry values after the encounter
C15_Witness ==
    /\ pc = "turn_end"
    /\ last.op = "combat_end"
    /\ player.class_type = "scout"
    /\ player.energy <= player.max_energy - skill_cost("Burst of Speed")
                                          - skill_cost("Stealth Field")
    /\ player.speed = combat.initial_speed
    /\ player.defense = combat.initial_defense

\* hp of enemy e after a grenade thrown with attack atk
HpAfterGrenade(e, atk) ==
    LET raw == atk \div 3 + 10
        dealt == IF raw - e.defense > 0 THEN raw - e.defense ELSE 0
    IN  IF e.hp - dealt > 0 THEN e.hp - dealt ELSE 0

\* the entity list after a grenade: the living enemies hit, the dead removed
AfterGrenade(ents, atk) ==
    LET hit == [i \in DOMAIN ents |->
                   IF ents[i].hp > 0
                   THEN [ents[i] EXCEPT !.hp = HpAfterGrenade(ents[i], atk)]
                   ELSE ents[i]]
        Standing(e) == e.hp > 0
    IN  SelectSeq(hit, Standing)

\* C16: using Grenade Toss lowers the hp of every living enemy in the entity
\* list by max(0, player.attack // 3 + 10 - that enemy's defense), clamped
\* at 0, leaves the player's hp unchanged (only the energy cost of 30 is
\* paid), and at once removes from the entity list every enemy whose hp
\* became 0; the engaged enemy takes the same damage when it is in the list.
C16_GrenadeHitsEveryEnemy ==
    [][(pc = "combat_player" /\ last'.op = "skill" /\ last'.name = "Grenade Toss") =>
          /\ entities' = AfterGrenade(entities, player.attack)
          /\ player' = [player EXCEPT !.energy = @ - 30]
          /\ (\E i \in DOMAIN entities : entities[i].id = combat.enemy.id) =>
                 combat'.enemy =
                     [combat.enemy EXCEPT !.hp = HpAfterGrenade(combat.enemy, player.attack)]]_vars

\* a grenade that killed and removed the engaged enemy and wounded the other
C16_Witness ==
    /\ last = [op |-> "skill", name |-> "Grenade Toss"]
    /\ combat.enemy.hp = 0
    /\ Len(entities) = 1
    /\ entities[1].id # combat.enemy.id
    /\ entities[1].hp < entities[1].max_hp
    /\ entities[1].hp > 0
    /\ player.hp > 0

\* C17: in every reachable state 0 <= player.energy <= player.max_energy; a
\* skill's effect is applied only when energy >= its energy_cost, and energy
\* then decreases by exactly that cost; selecting a skill whose cost exceeds
\* the current energy changes no field of the player, the enemy or the floor.
C17_EnergyPaysForSkills ==
    /\ [](0 <= player.energy /\ player.energy <= player.max_energy)
    /\ [][(pc = "combat_player" /\ last'.op = "skill") =>
             /\ last'.name \in Range(player.learned_skills)
             /\ player.energy >= skill_cost(last'.name)
             /\ player'.energy = player.energy - skill_cost(last'.name)]_vars
    /\ [][(pc = "combat_player" /\ last'.op = "skill_back" /\ last'.refused) =>
             /\ \E i \in DOMAIN player.learned_skills :
                    player.energy < skill_cost(player.learned_skills[i])
             /\ player' = player
             /\ combat'.enemy = combat.enemy
             /\ UNCHANGED mapVars]_vars

\* a skill refused for lack of energy after earlier skills were paid for
C17_Witness ==
    /\ last = [op |-> "skill_back", refused |-> TRUE]
    /\ player.energy < player.max_energy
    /\ player.energy < skill_cost("Grenade Toss")
    /\ "Grenade Toss" \in Range(player.learned_skills)

\* C18: within combat_round, once the player's or the engaged enemy's hp has
\* reached 0 no further combatant step is executed, in that round or later:
\* a combatant's step is pending only while both are alive, an enemy killed
\* by the player's action never attacks afterwards, and the player is never
\* prompted after dying.
C18_NoStepAfterDeath ==
    /\ [](pc \in {"combat_player", "combat_enemy"} =>
              is_alive(player) /\ is_alive(combat.enemy))
    /\ [][(InCombat /\ (~is_alive(player) \/ ~is_alive(combat.enemy))) =>
             /\ pc = "combat_end"
             /\ last'.op = "combat_end"
             /\ pc' = "turn_end"]_vars

\* the player, first in the round, killed the enemy with Power Shot: the
\* enemy's step of that round is skipped
C18_Witness ==
    /\ pc = "combat_end"
    /\ last = [op |-> "skill", name |-> "Power Shot"]
    /\ combat.order = <<"player", "enemy">>
    /\ combat.idx = 1
    /\ combat.enemy.hp = 0
    /\ is_alive(player)

\* the orthogonal neighbours of the player that are in bounds, not walls and
\* not occupied by a living enemy
FreeNonWallNeighbours ==
    {pos \in {<<player.x, player.y + 1>>, <<player.x, player.y - 1>>,
              <<player.x + 1, player.y>>, <<player.x - 1, player.y>>} :
        /\ pos \in DOMAIN tiles
        /\ tiles[pos] # "#"
        /\ ~\E i \in DOMAIN entities :
               entities[i].hp > 0 /\ <<entities[i].x, entities[i].y>> = pos}

\* C19: after a successful flee the player's position is either an
\* orthogonally adjacent, in-bounds, non-wall tile not occupied by a living
\* enemy, or unchanged, and unchanged only when no orthogonally adjacent
\* non-wall tile is free of living enemies; a failed flee leaves the position
\* unchanged, consumes the player's step and combat continues.
C19_FleeRelocation ==
    [][(pc = "combat_player" /\ last'.op = "flee") =>
          IF last'.escaped
          THEN /\ pc' = "combat_end"
               /\ \/ <<player'.x, player'.y>> \in FreeNonWallNeighbours
                  \/ /\ <<player'.x, player'.y>> = <<player.x, player.y>>
                     /\ FreeNonWallNeighbours = {}
          ELSE /\ player' = player
               /\ pc' \in {"combat_player", "combat_enemy"}
               /\ combat'.active]_vars

\* the indices of the living enemies of the floor
LivingEnemies == {i \in DOMAIN entities : entities[i].hp > 0}

\* C20: in a game started by character creation, at every turn boundary of
\* the exploration mode no two living enemies of the floor share a tile, no
\* living enemy shares a tile with the player, and every living enemy of the
\* floor is on an in-bounds non-wall tile.
C20_EnemiesOnTilesOfTheirOwn ==
    pc = "explore" =>
        /\ \A i, j \in LivingEnemies :
              i # j => <<entities[i].x, entities[i].y>> # <<entities[j].x, entities[j].y>>
        /\ \A i \in LivingEnemies :
              /\ <<entities[i].x, entities[i].y>> # <<player.x, player.y>>
              /\ <<entities[i].x, entities[i].y>> \in DOMAIN tiles
              /\ tiles[<<entities[i].x, entities[i].y>>] # "#"

\* after an ambush and a flee: two living enemies, one of them in a corridor,
\* and the player away from the start
C20_Witness ==
    /\ pc = "explore"
    /\ last.op = "turn_end"
    /\ Cardinality(LivingEnemies) = 2
    /\ <<player.x, player.y>> # player_start
    /\ \E i \in LivingEnemies :
         \A k \in DOMAIN rooms : <<entities[i].x, entities[i].y>> \notin RoomTiles(rooms[k])

\* the damage the living enemies next to the player deal in one enemy phase
RECURSIVE PhaseDamage(_)
PhaseDamage(k) ==
    IF k = 0 THEN 0
    ELSE LET e == entities[k]
             next_to == Abs(e.x - player.x) + Abs(e.y - player.y) = 1
             dealt == IF e.attack - player.defense > 0
                      THEN e.attack - player.defense ELSE 0
         IN  PhaseDamage(k - 1) + (IF e.hp > 0 /\ next_to THEN dealt ELSE 0)

C22_LevelUpDeltas ==
    /\ [](pc = "add_xp" =>
            \A amount \in 0..MaxXpAward :
               LET q == add_xp(player, amount)
               IN  q.level # player.level =>
                     q.xp = player.xp + amount - player.xp_to_next_level)
    /\ [][(last'.op = "add_xp" /\ player'.level # player.level) =>
          /\ player'.level = player.level + 1
          /\ player'.max_hp = player.max_hp + 15
          /\ player'.hp = player'.max_hp
          /\ player'.attack = player.attack + 3
          /\ player'.defense = player.defense + 2
          /\ player'.speed = player.speed + 1
          /\ player'.max_energy = player.max_energy + 10
          /\ player'.energy = player'.max_energy
          /\ \E amount \in 0..MaxXpAward :
                /\ player.xp + amount >= player.xp_to_next_level
                /\ player'.xp = player.xp + amount - player.xp_to_next_level
          /\ player'.xp_to_next_level =
                (XP_TO_LEVEL_UP_BASE * Pow(3, player.level)) \div Pow(2, player.level)
          /\ (player'.level = 2 => player'.xp_to_next_level = 75)
          /\ player'.credits = player.credits
          /\ player'.inventory = player.inventory
          /\ player'.equipped_weapon = player.equipped_weapon
          /\ player'.equipped_armor = player.equipped_armor
          /\ player'.crystals_collected = player.crystals_collected
          /\ player'.x = player.x
          /\ player'.y = player.y]_vars

\* a hurt character has just reached level 3 and is at full health
C22_Witness ==
    /\ last.op = "add_xp"
    /\ player.level = 3
    /\ player.max_hp = INITIAL_PLAYER_HP + 10 + 30
    /\ player.hp = player.max_hp
    /\ player.xp_to_next_level = 112

\* C23: a character made by character creation knows, after any experience awards,
\* exactly the skills its class gets at levels 2 and 5 that its level has reached,
\* each once and in that order, and never a skill of another class.
C23_SkillsMatchClassAndLevel ==
    pc = "add_xp" =>
      LET second == CASE player.class_type = "soldier" -> "Power Shot"
                      [] player.class_type = "engineer" -> "Repair Drone"
                      [] player.class_type = "scout" -> "Burst of Speed"
          fifth == CASE player.class_type = "soldier" -> "Grenade Toss"
                     [] player.class_type = "engineer" -> "Shield Matrix"
                     [] player.class_type = "scout" -> "Stealth Field"
      IN  player.learned_skills =
            (IF player.level >= 2 THEN <<second>> ELSE <<>>) \o
            (IF player.level >= 5 THEN <<fifth>> ELSE <<>>)

\* an engineer has gone past level 5 and knows both of its skills
C23_Witness ==
    /\ pc = "add_xp"
    /\ player.class_type = "engineer"
    /\ player.level = 6
    /\ player.learned_skills = <<"Repair Drone", "Shield Matrix">>

-----------------------------------------------------------------------------
(* Starting the program: start_game lines 791-817, display_save_info lines *)
(* 819-830 and load_game lines 878-953.                                    *)

\* self.player before character creation or loading
NoPlayer == [name |-> "None"]

\* the keys of ALL_SKILL_DATA, lines 504-511
ALL_SKILL_DATA ==
    {"Power Shot", "Repair Drone", "Burst of Speed", "Grenade Toss", "Shield Matrix",
     "Stealth Field"}

\* the keys load_game reads with player_data[key]; credits and crystals_collected
\* are read with .get(key, 0)
RequiredPlayerFields ==
    {"name", "max_hp", "attack", "defense", "speed", "class_type", "hp", "energy", "level",
     "xp", "xp_to_next_level", "max_energy", "x", "y", "inventory", "equipped_weapon",
     "equipped_armor", "learned_skills"}

\* the object without one of its keys
Without(object, key) == [k \in DOMAIN object \ {key} |-> object[k]]

\* dict.get(key, default)
Get(object, key, default) == IF key \in DOMAIN object THEN object[key] ELSE default

\* display_save_info raises KeyError when player_data, name, level or
\* current_level_num is missing; it catches only a missing or unparseable file
display_save_info_raises(file) ==
    /\ file.kind = "json"
    /\ \/ "player_data" \notin DOMAIN file.data
       \/ {"name", "level"} \ DOMAIN file.data["player_data"] # {}
       \/ "current_level_num" \notin DOMAIN file.data

\* the items rebuilt from their saved names, unknown names skipped (lines 910-916)
RECURSIVE load_inventory(_, _)
load_inventory(names, id) ==
    IF names = <<>> THEN <<>>
    ELSE IF Head(names) \in ALL_ITEM_CLASSES
         THEN <<NewItem(id, Head(names))>> \o load_inventory(Tail(names), id + 1)
         ELSE load_inventory(Tail(names), id)

\* load_equipped that knows the weapons only
load_equipped_weapons_only(name, id) ==
    IF name # JsonNull /\ name # "" /\ name \in WeaponNames
    THEN NewItem(id, name)
    ELSE NoItem

\* an equipped item rebuilt from its saved name (lines 919-930)
load_equipped(name, id) ==
    IF name # JsonNull /\ name # "" /\ name \in ALL_ITEM_CLASSES
    THEN NewItem(id, name)
    ELSE NoItem

\* the Player that lines 887-939 rebuild from player_data, items numbered from first_id
loaded_player(d, first_id) ==
    LET inv == load_inventory(d["inventory"], first_id)
        p == NewPlayer(d["max_hp"], d["attack"], d["defense"], d["speed"], d["class_type"])
    IN  [p EXCEPT !.name = d["name"],
                  !.hp = d["hp"],
                  !.energy = d["energy"],
                  !.credits = Get(d, "credits", 0),
                  !.crystals_collected = Get(d, "crystals_collected", 0),
                  !.level = d["level"],
                  !.xp = d["xp"],
                  !.xp_to_next_level = d["xp_to_next_level"],
                  !.max_energy = d["max_energy"],
                  !.x = d["x"],
                  !.y = d["y"],
                  !.inventory = inv,
                  !.equipped_weapon = load_equipped(d["equipped_weapon"], first_id + Len(inv)),
                  !.equipped_armor = load_equipped(d["equipped_armor"], first_id + Len(inv) + 1),
                  !.learned_skills = SelectSeq(d["learned_skills"],
                                               LAMBDA s : s \in ALL_SKILL_DATA)]

\* load_game up to the map: "fallback" when the file is missing or unparseable
\* (the except clause of line 951), "raise" when a key is missing (KeyError is not
\* caught), else the player and the floor number
load_game(file, first_id) ==
    IF file.kind # "json" THEN [outcome |-> "fallback"]
    ELSE IF \/ "player_data" \notin DOMAIN file.data
            \/ "current_level_num" \notin DOMAIN file.data
         THEN [outcome |-> "raise"]
    ELSE IF RequiredPlayerFields \ DOMAIN file.data["player_data"] # {}
         THEN [outcome |-> "raise"]
    ELSE [outcome |-> "loaded",
          player |-> loaded_player(file.data["player_data"], first_id),
          current_level_num |-> file.data["current_level_num"]]

\* two layouts generate_map can draw: the rooms along the left or along the right edge
LoadRoomDraws ==
    GameRoomDraws \cup
    {[i \in 1..MAX_ROOMS |->
        IF i = 1 THEN <<ROOM_MIN_SIZE, ROOM_MIN_SIZE, MAP_WIDTH - ROOM_MIN_SIZE - 1, 1>>
        ELSE <<ROOM_MIN_SIZE, ROOM_MIN_SIZE, MAP_WIDTH - ROOM_MIN_SIZE - 1,
               MAP_HEIGHT - ROOM_MIN_SIZE - 1>>]}

\* the floors load_game regenerates (lines 942-944)
LoadFloors(player_level, level_num, first_id) ==
    FloorsFrom(LoadRoomDraws, player_level, level_num,
               (level_num % 5 = 0) /\ (level_num > 0), first_id)

\* start_game up to the main loop
StartGame ==
    /\ pc = "start"
    /\ \E class_choice \in 1..3, choice \in {"l", "n"}, removed \in BOOLEAN :
         LET exists == save_file.kind # "missing"
             file == IF removed THEN NoFile ELSE save_file
             r == load_game(file, 1)
             raises == exists /\ (display_save_info_raises(save_file)
                                    \/ (choice = "l" /\ r.outcome = "raise"))
             loads == exists /\ ~raises /\ choice = "l" /\ r.outcome = "loaded"
             how == IF raises THEN "raise"
                    ELSE IF loads THEN "loaded"
                    ELSE IF exists /\ choice = "l" THEN "fallback"
                    ELSE "new"
             p == IF loads THEN r.player ELSE character_creation(class_choice)
             level_num == IF loads THEN r.current_level_num ELSE current_level_num
             floors == IF loads
                       THEN LoadFloors(p.level, level_num,
                                       3 + Len(r.player.inventory))
                       ELSE generate_level(p.level, level_num, 3)
         IN  /\ removed => (exists /\ choice = "l" /\ ~display_save_info_raises(save_file))
             /\ save_file' = file
             /\ last' = [op |-> "start", how |-> how]
             /\ IF raises
                THEN /\ pc' = "crashed"
                     /\ UNCHANGED <<player, current_level_num, mapVars, next_id>>
                ELSE \E f \in floors :
                       /\ player' = IF loads THEN p
                                    ELSE [p EXCEPT !.x = f.player_start[1],
                                                   !.y = f.player_start[2]]
                       /\ current_level_num' = level_num
                       /\ width' = f.width
                       /\ height' = f.height
                       /\ tiles' = f.tiles
                       /\ rooms' = f.rooms
                       /\ player_start' = f.player_start
                       /\ exit_location' = f.exit_location
                       /\ shop_location' = f.shop_location
                       /\ entities' = f.entities
                       /\ items_on_map' = f.items_on_map
                       /\ traps_on_map' = f.traps_on_map
                       /\ next_id' = f.next_id
                       /\ pc' = "explore"
    /\ UNCHANGED <<game_over, gen, combat, shop_items, sprung_traps, turns>>

\* the games a save file can hold: class, character level, damage taken, items picked
\* up, Cyber-Drones defeated and floor number
SavedCases ==
    {[class |-> 1, level |-> 1, damage |-> 0, pickups |-> <<>>, kills |-> 0, floor |-> 0],
     [class |-> 2, level |-> 3, damage |-> 20, pickups |-> <<"Energy Cell", "Plasma Rifle">>,
      kills |-> 1, floor |-> 1],
     [class |-> 3, level |-> 5, damage |-> 0, pickups |-> <<"Reinforced Vest">>,
      kills |-> 0, floor |-> 2]}

\* the player of a saved case
saved_player(case) ==
    LET p0 == picked_up(level_to(character_creation(case.class), case.level), case.pickups, 3)
        p1 == IF case.kills > 0
              THEN combat_rewards(p0, create_random_enemy(9, p0.level, 1, NoItem))
              ELSE p0
    IN  take_damage(p1, case.damage)

\* the tiles the player can stand on when the game is saved
SavedPositions(player_level, level_num) ==
    LET F == generate_level(player_level, level_num, 3)
    IN  {pos \in (0..MAP_WIDTH - 1) \X (0..MAP_HEIGHT - 1) : \E f \in F : f.tiles[pos] # "#"}

\* the objects save_game writes for the saved cases
SavedGames ==
    UNION {{save_game([saved_player(case) EXCEPT !.x = pos[1], !.y = pos[2]], case.floor) :
               pos \in SavedPositions(case.level, case.floor)} : case \in SavedCases}

\* the saved games of the second case at the start tile
SampleGames ==
    {g \in SavedGames :
        /\ g.player_data.class_type = "engineer"
        /\ \E f \in generate_level(g.player_data.level, g.current_level_num, 3) :
              f.player_start = <<g.player_data.x, g.player_data.y>>}

\* the record with one field of player_data replaced
WithPlayerField(g, key, value) ==
    [g EXCEPT !.player_data = [k \in DOMAIN @ |-> IF k = key THEN value ELSE @[k]]]

\* records that are valid JSON but not what save_game writes
EditedGames ==
    UNION {{Without(g, "player_data"),
            [g EXCEPT !.player_data = Without(@, "hp")],
            [g EXCEPT !.player_data = Without(Without(@, "credits"), "crystals_collected")],
            WithPlayerField(g, "inventory", <<"Energy Cell", "Rusty Spoon", "Plasma Rifle">>),
            WithPlayerField(g, "learned_skills", <<"Time Warp", "Repair Drone">>),
            WithPlayerField(g, "equipped_weapon", "Rusty Spoon")} : g \in SampleGames}

\* the files the program can find when it starts
SaveFiles ==
    {NoFile, CorruptFile} \cup {JsonFile(g) : g \in SavedGames \cup EditedGames}

LoadInit ==
    /\ save_file \in SaveFiles
    /\ player = NoPlayer
    /\ game_over = FALSE
    /\ current_level_num = 0
    /\ NoMap
    /\ pc = "start"
    /\ gen = NoGen
    /\ combat = NoCombat
    /\ shop_items = <<>>
    /\ turns = 0
    /\ sprung_traps = <<>>
    /\ next_id = 1
    /\ last = NoOp

LoadNext == StartGame \/ ExploreNoTurn \/ Quit \/ TurnEnd

SpecLoad == LoadInit /\ [][LoadNext]_vars

\* the names of a sequence of items
Names(items) == [i \in DOMAIN items |-> items[i].name]

\* C24: loading never ends the process abnormally: a missing file, a file that is
\* not JSON and a JSON record without player_data or without hp all lead to a new
\* character from character creation, and a record with an unknown item or skill
\* name loads with that name skipped.
C24_LoadingNeverCrashes ==
    last.op = "start" =>
      /\ pc = "explore"
      /\ (\/ save_file.kind # "json"
          \/ "player_data" \notin DOMAIN save_file.data
          \/ "hp" \notin DOMAIN save_file.data["player_data"])
            => /\ last.how \in {"new", "fallback"}
               /\ \E c \in 1..3 :
                    player = [character_creation(c) EXCEPT !.x = player_start[1],
                                                           !.y = player_start[2]]
      /\ last.how = "loaded" =>
            /\ Names(player.inventory) =
                 SelectSeq(save_file.data["player_data"]["inventory"],
                           LAMBDA n : n \in ALL_ITEM_CLASSES)
            /\ player.learned_skills =
                 SelectSeq(save_file.data["player_data"]["learned_skills"],
                           LAMBDA n : n \in ALL_SKILL_DATA)

\* the fields of player_data that save_game writes
SavedPlayerFields == RequiredPlayerFields \cup {"credits", "crystals_collected"}

\* the record has every field save_game writes, and every item and skill name in
\* it is in the catalogs
KnownNamesOnly(data) ==
    /\ {"player_data", "current_level_num"} \subseteq DOMAIN data
    /\ SavedPlayerFields \subseteq DOMAIN data["player_data"]
    /\ LET d == data["player_data"]
       IN  /\ \A i \in DOMAIN d["inventory"] : d["inventory"][i] \in ALL_ITEM_CLASSES
           /\ d["equipped_weapon"] \in ALL_ITEM_CLASSES \cup {JsonNull}
           /\ d["equipped_armor"] \in ALL_ITEM_CLASSES \cup {JsonNull}
           /\ \A i \in DOMAIN d["learned_skills"] : d["learned_skills"][i] \in ALL_SKILL_DATA

\* C25: for a record whose item and skill names are all in the catalogs, load_game
\* followed at once by save_game writes a record with the same floor number and the
\* same player fields (inventory names in order, equipment and skill names included).
C25_LoadThenSaveKeepsTheRecord ==
    [][(/\ last.op = "start"
        /\ last.how = "loaded"
        /\ KnownNamesOnly(save_file.data)
        /\ last'.op = "quit"
        /\ last'.saved)
          => /\ save_file'.kind = "json"
             /\ save_file'.data["current_level_num"] = save_file.data["current_level_num"]
             /\ DOMAIN save_file'.data["player_data"] = SavedPlayerFields
             /\ \A k \in SavedPlayerFields :
                  save_file'.data["player_data"][k] = save_file.data["player_data"][k]]_vars

\* the hurt engineer of floor 1 has been loaded and saved again
C25_Witness ==
    /\ last.op = "quit"
    /\ last.saved
    /\ player.class_type = "engineer"
    /\ player.level = 3
    /\ player.hp < player.max_hp
    /\ save_file.kind = "json"
    /\ KnownNamesOnly(save_file.data)
    /\ save_file.data["current_level_num"] = 1
    /\ save_file.data["player_data"]["equipped_armor"] = "Scrap Armor"
    /\ save_file.data["player_data"]["inventory"] =
         <<"Laser Pistol", "Scrap Armor", "Energy Cell", "Plasma Rifle">>

\* the player is a level-1 soldier with the starting Laser Pistol in hand
StartingSoldier ==
    /\ player.class_type = "soldier"
    /\ player.level = 1
    /\ player.equipped_weapon.name = "Laser Pistol"

\* C26: a new soldier from character creation has attack 15 and hp 110; its first
\* basic attack on an enemy with defense 5 deals exactly 10 damage; an attack that
\* brings the enemy's hp to 0 ends the encounter as EnemyDefeated, which awards the
\* enemy's XP and credits and removes the enemy from the entity list.
C26_NewSoldierScenario ==
    /\ []((last.op = "init" /\ pc = "explore" /\ player.class_type = "soldier")
             => (player.attack = 15 /\ player.hp = 110))
    /\ [][(/\ pc = "combat_player"
           /\ last'.op = "attack"
           /\ StartingSoldier
           /\ combat.enemy.defense = 5
           /\ combat.enemy.hp = combat.enemy.max_hp)
             => combat'.enemy.hp = combat.enemy.hp - 10]_vars
    /\ [][(/\ pc = "combat_player"
           /\ last'.op = "attack"
           /\ StartingSoldier
           /\ combat'.enemy.hp = 0)
             => pc' = "combat_end"]_vars
    /\ [][(/\ pc = "combat_end"
           /\ StartingSoldier
           /\ is_alive(player)
           /\ ~is_alive(combat.enemy))
             => /\ last'.outcome = "EnemyDefeated"
                /\ player'.credits = player.credits + combat.enemy.credit_value
                /\ player'.xp + (IF player'.level = player.level
                                 THEN 0 ELSE player.xp_to_next_level)
                     = player.xp + combat.enemy.xp_value
                /\ \A i \in DOMAIN entities' : entities'[i].id # combat.enemy.id]_vars

\* C27: a basic attack, by the player or by the enemy, lowers the target's hp by
\* exactly max(0, attacker.attack - target.defense), stopping at 0, and changes no
\* other field of either combatant: attack 10 on defense 5 takes 5, attack 3 on
\* defense 10 takes nothing, and an attack never raises hp.
C27_BasicAttackDamage ==
    /\ [](/\ attack_target([attack |-> 10], [hp |-> 20, defense |-> 5]) =
               [hp |-> 15, defense |-> 5]
          /\ attack_target([attack |-> 3], [hp |-> 20, defense |-> 10]) =
               [hp |-> 20, defense |-> 10]
          /\ attack_target([attack |-> 10], [hp |-> 3, defense |-> 5]) =
               [hp |-> 0, defense |-> 5])
    /\ [][last'.op = "attack" =>
            /\ player' = player
            /\ combat'.enemy =
                 [combat.enemy EXCEPT
                    !.hp = Max(0, @ - Max(0, player.attack - combat.enemy.defense))]
            /\ combat'.enemy.hp <= combat.enemy.hp]_vars
    /\ [][last'.op = "enemy_attack" =>
            /\ combat'.enemy = combat.enemy
            /\ player' =
                 [player EXCEPT
                    !.hp = Max(0, @ - Max(0, combat.enemy.attack - player.defense))]
            /\ player'.hp <= player.hp]_vars

\* an enemy has just attacked a player whose defense is above its attack, after
\* the player's own attack took some of its hp
C27_Witness ==
    /\ last.op = "enemy_attack"
    /\ combat.enemy.attack < player.defense
    /\ is_alive(player)
    /\ 0 < combat.enemy.hp
    /\ combat.enemy.hp = combat.enemy.max_hp - (player.attack - combat.enemy.defense)

-----------------------------------------------------------------------------
(* Enemy.create_random_enemy on its own, lines 311-344: one enemy for each *)
(* player level up to MaxPlayerLevel, archetype and drop.                  *)

MaxPlayerLevel == 20

EnemyInit ==
    /\ \E player_level \in 1..MaxPlayerLevel : gen = [player_level |-> player_level]
    /\ player = NoPlayer
    /\ game_over = FALSE
    /\ current_level_num = 0
    /\ NoMap
    /\ pc = "create_enemy"
    /\ combat = NoCombat
    /\ shop_items = <<>>
    /\ save_file = NoFile
    /\ turns = 0
    /\ sprung_traps = <<>>
    /\ next_id = 1
    /\ last = NoOp

\* Enemy.create_random_enemy(player_level) with each archetype and drop
CreateEnemy ==
    /\ pc = "create_enemy"
    /\ \E type_index \in DOMAIN enemy_types, drop \in {"None"} \cup Range(LootNames) :
         LET item_drop == IF drop = "None" THEN NoItem ELSE NewItem(next_id, drop)
         IN  entities' = <<create_random_enemy(next_id + 1, gen.player_level, type_index,
                                               item_drop)>>
    /\ last' = [op |-> "create_enemy"]
    /\ UNCHANGED <<player, game_over, current_level_num, width, height, tiles, rooms,
                   player_start, exit_location, shop_location, items_on_map, traps_on_map,
                   pc, gen, combat, shop_items, save_file, sprung_traps, turns, next_id>>

EnemyNext == CreateEnemy

SpecEnemy == EnemyInit /\ [][EnemyNext]_vars

\* the archetype with the given name
Archetype(name) == CHOOSE t \in Range(enemy_types) : t.name = name

\* C28: an enemy created for player level L has hp, attack, defense, speed,
\* xp_value and credit_value equal to its archetype's base value times
\* (1 + 0.2 * (L - 1)) cut to an integer, that is floor(base * (L + 4) / 5); at
\* L = 1 they are the base values.
C28_EnemyStatsScaleWithLevel ==
    pc = "create_enemy" =>
      \A i \in DOMAIN entities :
         LET e == entities[i]
             t == Archetype(e.name)
             L == gen.player_level
         IN  /\ e.hp = (t.hp * (L + 4)) \div 5
             /\ e.max_hp = e.hp
             /\ e.attack = (t.atk * (L + 4)) \div 5
             /\ e.defense = (t.def * (L + 4)) \div 5
             /\ e.speed = (t.spd * (L + 4)) \div 5
             /\ e.xp_value = (t.xp * (L + 4)) \div 5
             /\ e.credit_value = (t.credits * (L + 4)) \div 5
             /\ L = 1 => /\ e.hp = t.hp /\ e.attack = t.atk /\ e.defense = t.def
                         /\ e.speed = t.spd /\ e.xp_value = t.xp
                         /\ e.credit_value = t.credits

-----------------------------------------------------------------------------
(* The last crystal: a game in which a crystal was collected on most of    *)
(* the floors above, so that one more wins it.                             *)

\* the floor on which the player of WinInit stands
LateFloor == 11

WinInit == GameStart(LateFloor, CRYSTALS_TO_WIN - 1)

SpecWin == WinInit /\ [][Next]_vars

\* C29: crystals_collected never goes down and goes up by exactly 1 when the
\* player moves onto the tile of an Energy Crystal, which leaves the map and does
\* not enter the inventory; when it has reached CRYSTALS_TO_WIN after a player turn
\* that did not end the game, the game ends before any enemy acts; and once the
\* game is over no player or enemy action is processed.
C29_CrystalsAndVictory ==
    /\ [][player'.crystals_collected >= player.crystals_collected]_vars
    /\ [][LET moved == /\ pc = "explore"
                       /\ last'.op = "move"
                       /\ <<player'.x, player'.y>> = last'.target
           IN  IF /\ moved
                  /\ last'.target \in DOMAIN items_on_map
                  /\ items_on_map[last'.target].name = "Energy Crystal"
               THEN /\ player'.crystals_collected = player.crystals_collected + 1
                    /\ last'.target \notin DOMAIN items_on_map'
                    /\ player'.inventory = player.inventory
               ELSE player'.crystals_collected = player.crystals_collected]_vars
    /\ [][(/\ pc = "turn_end"
           /\ ~game_over
           /\ player.crystals_collected >= CRYSTALS_TO_WIN)
             => /\ pc' = "over"
                /\ game_over'
                /\ player' = player
                /\ entities' = entities]_vars
    /\ [][pc # "over"]_vars

\* the tenth crystal has been collected and the game has ended with the player
\* alive and a living enemy that did not act
C29_Witness ==
    /\ pc = "over"
    /\ game_over
    /\ player.crystals_collected = CRYSTALS_TO_WIN
    /\ is_alive(player)
    /\ \E i \in DOMAIN entities : is_alive(entities[i])

\* C30: whenever the exploration prompt is shown, the player's (x, y) is a tile of
\* the current floor that is in bounds and not a wall, also right after load_game
\* has restored the saved x and y and regenerated the floor.
C30_PlayerOnAFloorTile ==
    pc = "explore" =>
      /\ 0 <= player.x /\ player.x < width
      /\ 0 <= player.y /\ player.y < height
      /\ tiles[<<player.x, player.y>>] # "#"

\* the defense a class starts with, before any equipment (lines 968-984)
ClassBaseDefense(class_type) ==
    IF class_type = "engineer" THEN INITIAL_PLAYER_DEFENSE + 5 ELSE INITIAL_PLAYER_DEFENSE

\* C31: whenever the exploration prompt is shown in a game started by character
\* creation, player.defense is the class base defense plus 2 for every level gained
\* plus the defense_bonus of the armor now equipped, also after an encounter in
\* which the player put on a different armor.
C31_DefenseMatchesArmor ==
    pc = "explore" =>
      player.defense = ClassBaseDefense(player.class_type) + 2 * (player.level - 1)
                         + defense_bonus(player.equipped_armor.name)

\* C32: while an encounter is active the engaged enemy is a member of the floor's
\* entity list, so that Grenade Toss damages it; this includes the encounters that
\* start with a rest ambush when no tile next to the player is free.
C32_EngagedEnemyOnTheFloor ==
    /\ [](pc \in {"combat_player", "combat_enemy"} =>
            \E i \in DOMAIN entities : entities[i] = combat.enemy)
    /\ [][(last'.op = "skill" /\ last'.name = "Grenade Toss") =>
            combat'.enemy.hp =
              Max(0, combat.enemy.hp
                       - Max(0, (player.attack \div 3) + 10 - combat.enemy.defense))]_vars

\* C33: an enemy other than the engaged one that Grenade Toss kills leaves the
\* entity list without the player receiving its xp_value, credit_value or item_drop;
\* within an encounter xp, credits and inventory change as a reward only when the
\* engaged enemy is defeated, and then by that enemy's values.
C33_NoRewardForBystanders ==
    /\ [][(last'.op = "skill" /\ last'.name = "Grenade Toss") =>
            /\ player'.xp = player.xp
            /\ player'.level = player.level
            /\ player'.credits = player.credits
            /\ player'.inventory = player.inventory
            /\ \A i \in DOMAIN entities :
                 (/\ entities[i].id # combat.enemy.id
                  /\ is_alive(entities[i])
                  /\ entities[i].hp <= (player.attack \div 3) + 10 - entities[i].defense)
                   => \A j \in DOMAIN entities' : entities'[j].id # entities[i].id]_vars
    /\ [][(pc \in {"combat_player", "combat_enemy"}) =>
            /\ player'.xp = player.xp
            /\ player'.level = player.level
            /\ player'.credits = player.credits
            /\ (player'.inventory # player.inventory => last'.op = "inventory")]_vars
    /\ [][pc = "combat_end" =>
            IF is_alive(player) /\ ~is_alive(combat.enemy)
            THEN /\ player'.credits = player.credits + combat.enemy.credit_value
                 /\ player'.xp + (IF player'.level = player.level
                                  THEN 0 ELSE player.xp_to_next_level)
                      = player.xp + combat.enemy.xp_value
                 /\ player'.inventory =
                      IF combat.enemy.item_drop = NoItem THEN player.inventory
                      ELSE Append(player.inventory, combat.enemy.item_drop)
            ELSE /\ player'.credits = player.credits
                 /\ player'.xp = player.xp
                 /\ player'.inventory = player.inventory]_vars

\* a grenade has killed the drone of the floor while the engaged Alien Hunter
\* lives on, and the player has gained nothing
C33_Witness ==
    /\ pc \in {"combat_player", "combat_enemy"}
    /\ last.op = "skill"
    /\ last.name = "Grenade Toss"
    /\ combat.enemy.name = "Alien Hunter"
    /\ is_alive(combat.enemy)
    /\ entities = <<combat.enemy>>
    /\ player.xp = 0
    /\ player.credits = 0

-----------------------------------------------------------------------------
(* C34: a move that turns into combat and the traps, move_player lines     *)
(* 1155-1182.                                                              *)

\* C34: a move attempt that turns into combat because a living enemy stands on
\* the target tile leaves the player's position and the trap map unchanged and
\* triggers no trap; a trap is triggered only by a move whose survivor ends on
\* the trap's tile.
C34_CombatMoveSpringsNoTrap ==
    /\ [][(pc = "explore" /\ last'.op = "move"
             /\ pc' \in {"combat_player", "combat_enemy"}) =>
            /\ player'.x = player.x
            /\ player'.y = player.y
            /\ traps_on_map' = traps_on_map
            /\ last'.trap = NoTrap]_vars
    /\ [][(pc = "explore" /\ last'.op = "move" /\ last'.trap # NoTrap
             /\ is_alive(player')) =>
            <<player'.x, player'.y>> = last'.target]_vars

-----------------------------------------------------------------------------
(* C35: traps under the player, move_player lines 1155-1182, attempt_flee  *)
(* lines 1345-1366, generate_map lines 663-669.                            *)

\* C35: at every exploration prompt the trap map holds no untriggered trap at
\* the player's position.
C35_NoTrapUnderThePlayer ==
    pc = "explore" =>
      ~(/\ <<player.x, player.y>> \in DOMAIN traps_on_map
        /\ ~traps_on_map[<<player.x, player.y>>].triggered)

-----------------------------------------------------------------------------
(* C36: an enemy diagonally adjacent to the player, main_game_loop lines   *)
(* 1080-1108.                                                              *)

\* entity i is a living enemy with |dx| = 1 and |dy| = 1
Diagonal(p, ents, i) ==
    /\ is_alive(ents[i])
    /\ Abs(ents[i].x - p.x) = 1
    /\ Abs(ents[i].y - p.y) = 1

\* C36: the turn of an enemy diagonally adjacent to the player changes neither
\* the player nor the entity list, and the enemy phase leaves every such enemy
\* where it was: it stays while the player stays.
C36_DiagonalEnemyStays ==
    /\ [](\A i \in DOMAIN entities :
            Diagonal(player, entities, i) =>
              enemy_act(player, entities, i, tiles) = <<player, entities>>)
    /\ [][(pc = "turn_end" /\ pc' = "explore") =>
            \A i \in DOMAIN entities :
               Diagonal(player, entities, i) =>
                 /\ entities'[i] = entities[i]
                 /\ Diagonal(player', entities', i)]_vars

C36_Witness ==
    /\ pc = "explore"
    /\ last.op = "turn_end"
    /\ turns >= 2
    /\ \E i \in DOMAIN entities : Diagonal(player, entities, i)

-----------------------------------------------------------------------------
(* C37: the item objects across save_game and load_game, lines 839-868,    *)
(* 911-932, 991-997.                                                       *)

\* the distinct item objects in the inventory and the two equipment slots
owned_items(p) ==
    {p.inventory[i].id : i \in DOMAIN p.inventory}
      \cup ({p.equipped_weapon.id, p.equipped_armor.id} \ {NoItem.id})

\* C37: after load_game of a record that save_game wrote, the player owns as many
\* distinct item objects (inventory and both equipment slots) as the saved player
\* did: an equipped item does not come back as an extra inventory item.
C37_LoadKeepsTheItemCount ==
    (last.op = "start" /\ last.how = "loaded" /\ save_file.kind = "json") =>
      \A case \in SavedCases :
         LET p == [saved_player(case) EXCEPT !.x = player.x, !.y = player.y]
         IN  save_file.data = save_game(p, case.floor) =>
               Cardinality(owned_items(player)) = Cardinality(owned_items(p))

-----------------------------------------------------------------------------
(* C38: the rewards of a run of defeated enemies, combat_round lines       *)
(* 1321-1328 with the enemies of create_random_enemy.                      *)

MaxRewardLevel == 5

\* a new character at the start of the game
RewardInit ==
    /\ \E c \in 1..3 : player = character_creation(c)
    /\ game_over = FALSE
    /\ current_level_num = 0
    /\ NoMap
    /\ pc = "reward"
    /\ gen = NoGen
    /\ combat = NoCombat
    /\ shop_items = <<>>
    /\ save_file = NoFile
    /\ turns = 0
    /\ sprung_traps = <<>>
    /\ next_id = 3
    /\ last = NoOp

\* the reward block for an enemy of any archetype that was created when the
\* player had any level up to the present one
DefeatReward ==
    /\ pc = "reward"
    /\ player.level < MaxRewardLevel
    /\ \E type_index \in DOMAIN enemy_types, enemy_level \in 1..player.level :
         LET e == create_random_enemy(next_id, enemy_level, type_index, NoItem)
         IN  /\ player' = combat_rewards(player, e)
             /\ last' = [op |-> "reward", xp_value |-> e.xp_value,
                         xp_before |-> player.xp]
    /\ UNCHANGED <<game_over, current_level_num, mapVars, pc, gen, combat,
                   shop_items, save_file, sprung_traps, turns, next_id>>

SpecReward == RewardInit /\ [][DefeatReward]_vars

\* C38: in a game from character creation 0 <= xp < xp_to_next_level: the one
\* level-up of add_xp per defeated enemy suffices, since the xp_value of an enemy
\* scaled for a level up to the player's stays below the next level's threshold.
C38_XpBelowTheThreshold ==
    /\ 0 <= player.xp
    /\ player.xp < player.xp_to_next_level
    /\ \A type_index \in DOMAIN enemy_types, enemy_level \in 1..player.level :
         ScaleStat(enemy_types[type_index].xp, enemy_level) < XpThreshold(player.level + 1)

\* a reward that crossed the threshold of level 2 and left xp over
C38_Witness ==
    /\ last.op = "reward"
    /\ player.level = 3
    /\ last.xp_before + last.xp_value > XpThreshold(2)
    /\ player.xp > 0

-----------------------------------------------------------------------------
(* C39: encounters in which the player answers every prompt of combat_round *)
(* with 'a', lines 1269-1312.                                              *)

MaxDuelLevel == 4

\* A character from character creation that reached some level, unwounded or
\* with 10 hp left, engaged with an enemy of any archetype created when the
\* player had any level up to the present one.  The floor plays no part in an
\* exchange of attacks and is left empty but for the enemy.
DuelInit ==
    /\ game_over = FALSE
    /\ current_level_num = 1
    /\ \E c \in 1..3, level \in 1..MaxDuelLevel, type_index \in DOMAIN enemy_types,
          wounded \in BOOLEAN :
         \E enemy_level \in 1..level :
           LET p0 == level_to(character_creation(c), level)
               p == IF wounded THEN take_damage(p0, p0.max_hp - 10) ELSE p0
               e == create_random_enemy(3, enemy_level, type_index, NoItem)
           IN  /\ player = [p EXCEPT !.x = 1, !.y = 1]
               /\ entities = <<[e EXCEPT !.x = 1, !.y = 2]>>
               /\ combat = enter_combat(p, e)
               /\ pc = enter_pc(p, e)
    /\ width = 0
    /\ height = 0
    /\ tiles = <<>>
    /\ rooms = <<>>
    /\ player_start = <<0, 0>>
    /\ exit_location = <<0, 0>>
    /\ shop_location = NoPos
    /\ items_on_map = <<>>
    /\ traps_on_map = <<>>
    /\ gen = NoGen
    /\ shop_items = <<>>
    /\ save_file = NoFile
    /\ turns = MaxTurns
    /\ sprung_traps = <<>>
    /\ next_id = 4
    /\ last = [op |-> "move"]

DuelNext == CombatAttack \/ CombatEnemy \/ CombatEnd

\* get_player_input blocks until the player answers, and the player answers 'a':
\* the loop of combat_round always takes its next step
SpecDuel == DuelInit /\ [][DuelNext]_vars /\ WF_vars(DuelNext)

\* C39: when the player attacks at every combat step every encounter ends, as
\* EnemyDefeated or PlayerDefeated: the player's attack exceeds the engaged
\* enemy's defense, so each attack takes at least 1 hp.
C39_AttackingEndsTheEncounter ==
    /\ (pc \in {"combat_player", "combat_enemy"}) ~>
          (/\ last.op = "combat_end"
           /\ last.outcome \in {"EnemyDefeated", "PlayerDefeated"})
    /\ []((pc \in {"combat_player", "combat_enemy"}) =>
             player.attack > combat.enemy.defense)
    /\ [][(pc = "combat_player") => combat'.enemy.hp < combat.enemy.hp]_vars

\* an engineer whom the Cyber-Drone cannot hurt has worn it down
C39_Witness ==
    /\ last.op = "combat_end"
    /\ last.outcome = "EnemyDefeated"
    /\ player.class_type = "engineer"
    /\ combat.enemy.name = "Cyber-Drone"
    /\ combat.enemy.attack <= player.defense

-----------------------------------------------------------------------------
(* C40: the first room candidate and the retry of generate_map, lines      *)
(* 578-601 and 625-636.                                                    *)

\* C40: the first room candidate is always accepted, so the tile pool at the
\* start of feature placement is never empty and generate_map never takes the
\* branch that regenerates the map from scratch.
C40_FirstRoomAlwaysAccepted ==
    /\ [][(pc = "gen_rooms" /\ gen.attempt = 0 /\ gen'.attempt = 1) =>
            Len(rooms') = 1]_vars
    /\ []((pc = "gen_rooms" /\ gen.attempt >= 1) => Len(rooms) >= 1)
    /\ []((pc = "gen_rooms" /\ gen.attempt = MAX_ROOMS) =>
             connect_and_collect(CurrentFloor).pool # <<>>)
    /\ [](pc \in {"gen_rooms", "gen_start"} => ~gen.regenerated)

\* only the first candidate was accepted, and feature placement starts with
\* the tiles of that room
C40_Witness ==
    /\ pc = "gen_start"
    /\ Len(rooms) = 1
    /\ gen.attempt = MAX_ROOMS
    /\ ~gen.regenerated
    /\ Len(gen.empty_tiles) = (rooms[1].x2 - rooms[1].x1) * (rooms[1].y2 - rooms[1].y1)

=========================================================================
